---- MODULE Spec2Model ----
(***************************************************************************)
(* Model of the payment one-time-code step of the checkout flow            *)
(* (src/src/steps/checkout.py): the strict modal lookup, the scoped code   *)
(* fill, the dismiss classifier, the modal-scoped submit click, the        *)
(* evidence wait, the retry loop and the final payment result wait.        *)
(*                                                                         *)
(* The browser is the environment: the page may close, the strict modal    *)
(* '#confirm-cancel-cvv' may open or close and the visible texts may       *)
(* change between any two probes of the program.                           *)
(***************************************************************************)
EXTENDS Integers, Sequences, FiniteSets, TLC

VARIABLES
    (* -- classifier harness (SpecClassify) -- *)
    cands,          \* candidates handed to the classifier, in order
    verdicts,       \* results of _looks_like_modal_dismiss_action, in order
    (* -- configuration -- *)
    config,         \* the AppConfig fields the payment step reads
    (* -- the page (environment) -- *)
    dom,            \* names of the elements attached inside the strict modal
    pageClosed,     \* page.is_closed()
    modalVisible,   \* '#confirm-cancel-cvv' is visible
    texts,          \* phrases currently visible on the page
    (* -- run_checkout_and_payment -- *)
    pc,             \* position in run_checkout_and_payment
    otp,            \* the code typed by the operator (stripped)
    otpInput,       \* input resolved by _fill_payment_otp_in_modal
    attempt,        \* loop variable of the confirm-click loop
    submitted,
    closedNoFb,     \* closed_without_feedback
    submitState,    \* last value returned by _wait_for_otp_submit_evidence
    evPoll,         \* polls already made by the running evidence wait
    resPoll,        \* polls already made by the final result wait
    result,         \* value returned by _wait_for_payment_processing_result
    outcome,        \* "running", "ok", or the error the run ended with
    (* -- what the program did to the page -- *)
    fills,          \* sequence of elements the code was typed into
    clicks,         \* sequence of records: OTP submit clicks
    snaps,          \* labels passed to save_snapshot, in order
    (* -- what the program observed (history) -- *)
    obs,            \* record of observations, see ObsInit
    (* -- the other steps, each checked under a specification of its own -- *)
    money,          \* _validate_total: the configured and the shown amount
    fav,            \* _find_favorite_row: the configured name and the rows
    browser,        \* run_login: the pages of the context, the interstitials
    login,          \* run_login: its position, its page and what it did
    resolver,       \* the selector cascades: their inputs and their results
    waits,          \* a polling wait: what the page shows, polls, result
    run,            \* main: its locals, the driver and context, what it did
    checkout        \* run_checkout_and_payment up to the code prompt

vars == << cands, verdicts, config, dom, pageClosed, modalVisible, texts,
           pc, otp, otpInput, attempt, submitted, closedNoFb, submitState,
           evPoll, resPoll, result, outcome, fills, clicks, snaps, obs,
           money, fav, browser, login, resolver, waits, run, checkout >>

(***************************************************************************)
(* Bounds of the model.                                                    *)
(***************************************************************************)
MaxCands == 2          \* candidates classified in one classifier run
MaxModalButtons == 2   \* buttons attached inside the strict modal
MaxEvidencePolls == 2  \* cap on the polls of one evidence wait
MaxResultPolls == 3    \* cap on the polls of the final result wait

Min(a, b) == IF a < b THEN a ELSE b
Max(a, b) == IF a > b THEN a ELSE b

(***************************************************************************)
(* Text.  A snippet is one of the tokens below; the regular expressions of *)
(* the source are modelled by the set of tokens they match.                *)
(***************************************************************************)
\* value.strip() is empty
IsBlank(s) == s \in {"", " "}

\* confirm_regex: confirmar|confirmo|continuar|enviar|validar|pagar|
\*                concluir|prosseguir|finalizar|ok        (IGNORECASE, search)
confirm_regex(s) == s \in {"Confirmar", "Enviar", "confirmarModalConfirmacao"}

\* dismiss_regex: \b(fechar|cancelar|voltar|corrigir|nao|não|close|dismiss|
\*                btn-close|modal-close)\b|(^|\s)x(\s|$)  (IGNORECASE, search)
dismiss_regex(s) == s \in {"Cancelar", "Fechar", "btn-close", "x"}

\* "modal" in attr_value.lower()
ContainsModal(s) == s \in {"modal", "MODAL"}

\* has-text('Confirmar') / name=re.compile("confirmar", IGNORECASE)
HasConfirmar(s) == s \in {"Confirmar", "confirmarModalConfirmacao"}

\* re.compile("confirmar|continuar|enviar|validar", IGNORECASE)
submit_filter_regex(s) == s \in {"Confirmar", "Enviar"}

(***************************************************************************)
(* _looks_like_modal_dismiss_action                                        *)
(***************************************************************************)
\* the getters of the snippet loop, in source order
Getters == << "inner_text", "value", "aria_label", "title", "id", "class",
              "name", "data_dismiss", "data_bs_dismiss", "data_action",
              "onclick" >>

RECURSIVE CollectSnippets(_, _)
CollectSnippets(c, i) ==
    IF i > Len(Getters) THEN << >>
    ELSE LET value == c[Getters[i]]
         IN  IF IsBlank(value) THEN CollectSnippets(c, i + 1)
             ELSE << value >> \o CollectSnippets(c, i + 1)

snippets(c) == CollectSnippets(c, 1)

\* confirm_regex.search(" ".join(snippets)) is not None
confirm_search(sn) == \E i \in 1..Len(sn) : confirm_regex(sn[i])

\* dismiss_regex.search(" ".join(snippets)) is not None
dismiss_search(sn) == \E i \in 1..Len(sn) : dismiss_regex(sn[i])

looks_confirm_action(c) ==
    /\ confirm_search(snippets(c))
    /\ ~dismiss_search(snippets(c))

HardDismissAttrs == << "data_dismiss", "data_bs_dismiss" >>

hard_dismiss_NoOverride(c) ==
    \E i \in 1..Len(HardDismissAttrs) :
        /\ ~IsBlank(c[HardDismissAttrs[i]])
        /\ ContainsModal(c[HardDismissAttrs[i]])

hard_dismiss(c) ==
    \E i \in 1..Len(HardDismissAttrs) :
        /\ ~IsBlank(c[HardDismissAttrs[i]])
        /\ ContainsModal(c[HardDismissAttrs[i]])
        /\ ~looks_confirm_action(c)

looks_like_modal_dismiss_action(c) ==
    IF snippets(c) = << >> THEN FALSE
    ELSE IF hard_dismiss(c) THEN TRUE
    ELSE dismiss_search(snippets(c)) /\ ~looks_confirm_action(c)

\* an element without any readable attribute
NoAttrs == [ inner_text |-> "", value |-> "", aria_label |-> "", title |-> "",
             id |-> "", class |-> "", name |-> "", data_dismiss |-> "",
             data_bs_dismiss |-> "", data_action |-> "", onclick |-> "" ]

\* the candidates the classifier harness draws from
CandidateInputs ==
    { [ NoAttrs EXCEPT !.inner_text = t, !.class = k,
                       !.data_dismiss = d, !.data_bs_dismiss = b ] :
        t \in {"", "Confirmar", "Cancelar", "Limpar"},
        k \in {" ", "btn-close"},
        d \in {"", "modal", "alert"},
        b \in {"", "MODAL"} }


(***************************************************************************)
(* The page.  Elements have fixed attributes; which of the modal's         *)
(* elements are attached is chosen at the start of a run.  `hit` says how  *)
(* a click on the element fares: "normal" (locator.click works), "force"   *)
(* (only click(force=True) works), "script" (only el.click() works),       *)
(* "hidden" (never visible) and "dead" (visible, every click raises).      *)
(***************************************************************************)
Button(attrs, hit) ==
    [ attrs |-> attrs, tag |-> "button", scope |-> "modal", hit |-> hit,
      sels |-> {} ]

El ==
    [ n \in { "otpIn", "txtIn", "pageIn", "pageConfirm", "btnConfirm",
              "btnCancel", "btnBlank", "btnOverride", "btnEnviar",
              "btnGhost" } |->
      CASE n = "otpIn" ->
             [ attrs |-> [ NoAttrs EXCEPT !.name = "otp" ], tag |-> "input",
               scope |-> "modal", hit |-> "normal",
               sels |-> { "input[name='otp']", "input[type='text']" } ]
        [] n = "txtIn" ->
             [ attrs |-> NoAttrs, tag |-> "input", scope |-> "modal",
               hit |-> "normal", sels |-> { "input[type='text']" } ]
        [] n = "pageIn" ->
             [ attrs |-> [ NoAttrs EXCEPT !.name = "otp" ], tag |-> "input",
               scope |-> "page", hit |-> "normal",
               sels |-> { "input[name='otp']", "input[type='text']" } ]
        [] n = "pageConfirm" ->
             [ Button([ NoAttrs EXCEPT !.inner_text = "Confirmar",
                                       !.id = "confirmarModalConfirmacao" ],
                      "normal") EXCEPT !.scope = "page" ]
        [] n = "btnConfirm" ->
             Button([ NoAttrs EXCEPT !.inner_text = "Confirmar",
                                     !.id = "confirmarModalConfirmacao" ],
                    "normal")
        [] n = "btnCancel" ->
             Button([ NoAttrs EXCEPT !.inner_text = "Cancelar",
                                     !.data_dismiss = "modal" ], "normal")
        [] n = "btnBlank" -> Button(NoAttrs, "force")
        [] n = "btnOverride" ->
             Button([ NoAttrs EXCEPT !.inner_text = "Confirmar",
                                     !.data_bs_dismiss = "MODAL" ], "normal")
        [] n = "btnEnviar" ->
             Button([ NoAttrs EXCEPT !.inner_text = "Enviar" ], "script")
        [] n = "btnGhost" ->
             Button([ NoAttrs EXCEPT !.inner_text = "Confirmar" ], "hidden") ]

\* document order of the elements
DocOrder == << "pageIn", "pageConfirm", "txtIn", "otpIn", "btnCancel",
               "btnBlank", "btnGhost", "btnOverride", "btnEnviar",
               "btnConfirm" >>

ModalInputs == { "otpIn", "txtIn" }
ModalButtons == { "btnConfirm", "btnCancel", "btnBlank", "btnOverride",
                  "btnEnviar", "btnGhost" }
PageElements == { "pageIn", "pageConfirm" }

\* the layouts of the strict modal a run may meet
\* (the buttons matter only once an input was found, so the layouts vary the
\* inputs without buttons and the buttons with the code input attached)
Doms == (SUBSET ModalInputs) \cup
        { { "otpIn" } \cup b : b \in { x \in SUBSET ModalButtons :
                                         Cardinality(x) <= MaxModalButtons } }

\* the elements a locator rooted at `scope` can resolve to
ScopeElements_PageWide(scope) == dom \cup PageElements

ScopeElements(scope) ==
    IF scope = "modal" THEN dom ELSE dom \cup PageElements

RECURSIVE FilterDoc(_, _)
FilterDoc(S, i) ==
    IF i > Len(DocOrder) THEN << >>
    ELSE IF DocOrder[i] \in S THEN << DocOrder[i] >> \o FilterDoc(S, i + 1)
         ELSE FilterDoc(S, i + 1)

\* does the selector (or role/text locator) match the element
SelectorMatches(sel, n) ==
    CASE sel = "button" -> El[n].tag = "button"
      [] sel = "#confirmarModalConfirmacao" ->
             El[n].attrs.id = "confirmarModalConfirmacao"
      [] sel = "role=button[name=/confirmar/i]" ->
             /\ El[n].tag = "button"
             /\ HasConfirmar(IF IsBlank(El[n].attrs.aria_label)
                             THEN El[n].attrs.inner_text
                             ELSE El[n].attrs.aria_label)
      [] sel = "button:has-text('Confirmar')" ->
             El[n].tag = "button" /\ HasConfirmar(El[n].attrs.inner_text)
      [] sel = "a:has-text('Confirmar')" ->
             El[n].tag = "a" /\ HasConfirmar(El[n].attrs.inner_text)
      [] sel = "input[type='button'][value*='Confirmar']" ->
             El[n].tag = "input[type='button']" /\ El[n].attrs.value = "Confirmar"
      [] sel = "input[type='submit'][value*='Confirmar']" ->
             El[n].tag = "input[type='submit']" /\ El[n].attrs.value = "Confirmar"
      [] sel = "button >> has_text=/confirmar|continuar|enviar|validar/i" ->
             El[n].tag = "button" /\ submit_filter_regex(El[n].attrs.inner_text)
      [] OTHER -> sel \in El[n].sels

\* scope.locator(sel): the matches of the selector in scope, in document order
Locate(scope, sel) ==
    FilterDoc({ n \in ScopeElements(scope) : SelectorMatches(sel, n) }, 1)

\* an element of the modal is visible when the modal is, and the page is open
IsVisible(n) ==
    /\ ~pageClosed
    /\ El[n].hit # "hidden"
    /\ (El[n].scope = "modal" => modalVisible)

(***************************************************************************)
(* _find_strict_payment_otp_modal, _otp_strict_modal_still_visible         *)
(***************************************************************************)
find_strict_payment_otp_modal_NoCheck == TRUE

\* TRUE when the locator of '#confirm-cancel-cvv' is returned, FALSE for None
find_strict_payment_otp_modal == ~pageClosed /\ modalVisible

otp_strict_modal_still_visible ==
    ~pageClosed /\ find_strict_payment_otp_modal /\ modalVisible

(***************************************************************************)
(* _payment_otp_modal_input_selectors, _find_visible_in_scope              *)
(***************************************************************************)
payment_otp_modal_input_selectors ==
    << "",    \* config.payment_otp_input_selector (blank)
       "input[data-checkout='securityCodeModal']", "input[name='otp']",
       "input[name='codigo']", "input[name*='codigo']", "input[id*='codigo']",
       "input[placeholder*='Codigo de Seguranca']",
       "input[placeholder*='codigo de seguranca']",
       "input[placeholder*='Codigo']", "input[placeholder*='codigo']",
       "input[inputmode='numeric']", "input[type='tel']",
       "input[type='text']" >>

NoElement == "none"

RECURSIVE FindVisibleFrom(_, _, _)
FindVisibleFrom(scope, selectors, i) ==
    IF i > Len(selectors) THEN NoElement
    ELSE IF IsBlank(selectors[i]) THEN FindVisibleFrom(scope, selectors, i + 1)
    ELSE LET matches == Locate(scope, selectors[i])
         IN  IF matches # << >> /\ IsVisible(matches[1]) THEN matches[1]
             ELSE FindVisibleFrom(scope, selectors, i + 1)

find_visible_in_scope(scope, selectors) == FindVisibleFrom(scope, selectors, 1)


(***************************************************************************)
(* _click_payment_otp_submit_button: the candidates and the click cascade  *)
(***************************************************************************)
modal_locators ==
    << "#confirmarModalConfirmacao",
       "role=button[name=/confirmar/i]",
       "button:has-text('Confirmar')",
       "a:has-text('Confirmar')",
       "input[type='button'][value*='Confirmar']",
       "input[type='submit'][value*='Confirmar']",
       "button >> has_text=/confirmar|continuar|enviar|validar/i" >>

NoClick == [ el |-> NoElement, how |-> "none" ]

\* the loop over sel.nth(idx) of the configured selector
RECURSIVE ClickConfigured(_, _)
ClickConfigured(cs, i) ==
    IF i > Len(cs) THEN NoClick
    ELSE LET n == cs[i]
         IN  IF looks_like_modal_dismiss_action(El[n].attrs)
             THEN ClickConfigured(cs, i + 1)
             ELSE IF IsVisible(n) /\ El[n].hit = "normal"
             THEN [ el |-> n, how |-> "click" ]
             ELSE IF IsVisible(n) /\ El[n].hit = "force"
             THEN [ el |-> n, how |-> "force" ]
             ELSE ClickConfigured(cs, i + 1)

\* the loop over loc.nth(idx) of one locator of the built-in cascade (the
\* page.wait_for_timeout(450) after a click is made on the still open page)
RECURSIVE ClickCascadeLocator(_, _)
ClickCascadeLocator(cs, i) ==
    IF i > Len(cs) THEN NoClick
    ELSE LET n == cs[i]
         IN  IF ~IsVisible(n) THEN ClickCascadeLocator(cs, i + 1)
             ELSE IF looks_like_modal_dismiss_action(El[n].attrs)
             THEN ClickCascadeLocator(cs, i + 1)
             ELSE IF El[n].hit = "normal" THEN [ el |-> n, how |-> "click" ]
             ELSE IF El[n].hit = "force" THEN [ el |-> n, how |-> "force" ]
             ELSE IF El[n].hit = "script" THEN [ el |-> n, how |-> "evaluate" ]
             ELSE ClickCascadeLocator(cs, i + 1)

RECURSIVE ClickCascade(_)
ClickCascade(k) ==
    IF k > Len(modal_locators) THEN NoClick
    ELSE LET r == ClickCascadeLocator(Locate("modal", modal_locators[k]), 1)
         IN  IF r # NoClick THEN r ELSE ClickCascade(k + 1)

\* the part of _click_payment_otp_submit_button after the modal was found:
\* the click made, or NoClick when the function returns False
click_in_modal ==
    LET byConfig ==
            IF IsBlank(config.payment_otp_submit_selector) THEN NoClick
            ELSE ClickConfigured(
                     Locate("modal", config.payment_otp_submit_selector), 1)
    IN  IF byConfig # NoClick THEN byConfig ELSE ClickCascade(1)

(***************************************************************************)
(* Visible texts and the status regular expressions                        *)
(***************************************************************************)
Phrases == { "processando", "pagamento realizado", "pagamento recusado",
             "aposta realizada" }

MaxVisibleTexts == 2   \* phrases visible at the same time

TextSets == { T \in SUBSET Phrases : Cardinality(T) <= MaxVisibleTexts }

\* processando|aguarde|analisando|confirmando|pagamento realizado|
\* pagamento recusado|sucesso|falha|erro|comprovante
status_regex(t) ==
    t \in { "processando", "pagamento realizado", "pagamento recusado" }

\* pagamento realizado|aposta(s)? realizada(s)?|sucesso|comprovante
success_regex(t) == t \in { "pagamento realizado", "aposta realizada" }

\* pagamento recusado|n[oã]o autorizado|falha|erro|negado
failure_regex(t) == t \in { "pagamento recusado", "negado" }

\* processando|aguarde|analisando|confirmando
pending_regex(t) == t = "processando"

\* page.get_by_text(text, exact=False): case-insensitive substring match
ContainsIgnoreCase(t, needle) ==
    \/ needle = "Pagamento realizado" /\ t = "pagamento realizado"
    \/ needle = "Pagamento recusado" /\ t = "pagamento recusado"

\* the texts page.get_by_text can find visible; a closed page raises a
\* PlaywrightError, which the probes catch and answer False
VisibleTexts == IF pageClosed THEN {} ELSE texts

\* text_exists(page, text, exact=False)
text_exists(needle) == \E t \in VisibleTexts : ContainsIgnoreCase(t, needle)

otp_submit_feedback_detected == \E t \in VisibleTexts : status_regex(t)

otp_modal_submitted == otp_submit_feedback_detected


(***************************************************************************)
(* Program constants and error messages                                    *)
(***************************************************************************)
Attempts == 2                \* attempts = 2
EvidenceTimeoutMs == 3500    \* _wait_for_otp_submit_evidence(timeout_ms=3500)
EvidencePollMs == 250        \* poll_ms=250
ResultTimeoutMs == 90000     \* _wait_for_payment_processing_result(timeout_ms)
ResultPollMs == 500          \* timeout_ms // 500

\* polls = max(1, timeout_ms // poll_ms), capped by the bound of the model
EvidencePolls == Min(Max(1, EvidenceTimeoutMs \div EvidencePollMs), MaxEvidencePolls)
ResultPolls == Min(Max(1, ResultTimeoutMs \div ResultPollMs), MaxResultPolls)

\* the messages of the AutomationErrors of run_checkout_and_payment
CheckoutErr ==
    [ NoCart |-> "Could not open cart from favorites page",
      CartNotDetected |-> "Cart page was not detected after cart open click",
      NoCheckout |-> "Could not find checkout action from cart page",
      Total |-> "Expected total text not found on page",
      NoForm |-> "No visible element found for selectors",
      NoSubmit |-> "No visible payment submit button found",
      OtpEmpty |-> "Payment OTP cannot be empty",
      StrictModalNotFound |->
          "Strict payment OTP modal '#confirm-cancel-cvv' not found; refusing to fill code outside modal",
      InputNotVisible |->
          "Payment OTP input is not visible inside confirmation modal",
      StillOpen |->
          "Payment OTP modal is still open after modal-scoped confirm clicks",
      ClosedNoFeedback |->
          "OTP modal closed without payment processing confirmation markers",
      NoVisibleElement |-> "No visible element found for selectors: ['body']",
      \* config.failure_text or 'failure marker found'
      PaymentFailure |->
          [ configured \in BOOLEAN |->
              IF configured
              THEN "Payment failure text detected: Pagamento recusado"
              ELSE "Payment failure text detected: failure marker found" ],
      ResultUnknown |->
          "Payment was submitted but final confirmation was not detected within timeout" ]

\* every message an AutomationError of the code step can carry
AutomationErrors ==
    { CheckoutErr.OtpEmpty, CheckoutErr.StrictModalNotFound,
      CheckoutErr.InputNotVisible, CheckoutErr.StillOpen,
      CheckoutErr.ClosedNoFeedback, CheckoutErr.NoVisibleElement,
      CheckoutErr.ResultUnknown, CheckoutErr.PaymentFailure[TRUE],
      CheckoutErr.PaymentFailure[FALSE] }

\* a PlaywrightError that no handler of the step catches
Unexpected == "PlaywrightError"

\* str.strip() of the operator's input
Strip(s) == IF IsBlank(s) THEN "" ELSE s

\* SUCCESS_TEXT and FAILURE_TEXT at their defaults or both blank
Configs ==
    { c \in [ payment_otp_submit_selector : { "", "button" },
              success_text : { "", "Pagamento realizado" },
              failure_text : { "", "Pagamento recusado" } ] :
        (c.success_text = "") = (c.failure_text = "") }

(***************************************************************************)
(* State groups                                                            *)
(***************************************************************************)
unitVars == << money, fav, browser, login, resolver, waits, run, checkout >>
harnessVars == << cands, verdicts, unitVars >>
envVars == << dom, pageClosed, modalVisible, texts >>
loopVars == << attempt, submitted, closedNoFb, submitState, evPoll >>
resVars == << resPoll, result >>

ObsInit ==
    [ fillProbe |-> "none",    \* was the strict modal there when the fill looked
      clickAbsent |-> {},      \* attempts whose click found page closed / no modal
      fbClicks |-> -1,         \* Len(clicks) when an evidence wait saw feedback
      evAttempt |-> 0,         \* attempt whose evidence wait returned submitState
      evClosed |-> FALSE,      \* the page was closed when that wait returned
      resultWait |-> FALSE,    \* the final result wait was entered
      pendingSeen |-> FALSE,   \* a poll of the final wait saw only pending text
      lastPoll |-> "none",     \* what the last poll of the final wait had to see
      sawSuccess |-> FALSE,    \* a poll of the final wait had success text to see
      sawFailure |-> FALSE ]   \* a poll of the final wait had failure text to see

\* raise: the run ends with the error
Fail(msg) == pc' = "done" /\ outcome' = msg

\* save_snapshot(page, run_dir, label); the step ignores its return value
save_snapshot(label) == snaps' = Append(snaps, label)

(***************************************************************************)
(* run_checkout_and_payment, from the code prompt on                       *)
(***************************************************************************)
\* otp = input("Enter payment code: ").strip()
Prompt ==
    /\ pc = "prompt"
    /\ \E typed \in { "", " ", "123456" } :
         /\ otp' = Strip(typed)
         /\ IF Strip(typed) = "" THEN Fail(CheckoutErr.OtpEmpty)
            ELSE pc' = "fill_modal" /\ UNCHANGED outcome
    /\ UNCHANGED << harnessVars, config, envVars, otpInput, loopVars, resVars,
                    fills, clicks, snaps, obs >>

\* _fill_payment_otp_in_modal: the strict modal lookup
FillFindModal ==
    /\ pc = "fill_modal"
    /\ obs' = [ obs EXCEPT !.fillProbe =
                  IF ~pageClosed /\ modalVisible THEN "present" ELSE "absent" ]
    /\ IF find_strict_payment_otp_modal
       THEN pc' = "fill_input" /\ UNCHANGED outcome
       ELSE Fail(CheckoutErr.StrictModalNotFound)
    /\ UNCHANGED << harnessVars, config, envVars, otp, otpInput, loopVars,
                    resVars, fills, clicks, snaps >>

\* _fill_payment_otp_in_modal: the input lookup inside the modal
FillFindInput ==
    /\ pc = "fill_input"
    /\ LET otp_input == find_visible_in_scope("modal", payment_otp_modal_input_selectors)
       IN  IF otp_input = NoElement
           THEN Fail(CheckoutErr.InputNotVisible) /\ UNCHANGED otpInput
           ELSE pc' = "fill_do" /\ otpInput' = otp_input /\ UNCHANGED outcome
    /\ UNCHANGED << harnessVars, config, envVars, otp, loopVars, resVars,
                    fills, clicks, snaps, obs >>

\* otp_input.fill(otp); page.wait_for_timeout(350)
FillDo ==
    /\ pc = "fill_do"
    /\ IF IsVisible(otpInput)
       THEN /\ fills' = Append(fills, otpInput)
            /\ pc' = "click_modal"
            /\ UNCHANGED outcome
       ELSE Fail(Unexpected) /\ UNCHANGED fills
    /\ UNCHANGED << harnessVars, config, envVars, otp, otpInput, loopVars,
                    resVars, clicks, snaps, obs >>

\* _click_payment_otp_submit_button: closed page and strict modal checks
ClickFindModal ==
    /\ pc = "click_modal"
    /\ obs' = [ obs EXCEPT !.clickAbsent =
                  IF pageClosed \/ ~modalVisible THEN @ \cup { attempt } ELSE @ ]
    /\ IF pageClosed \/ ~find_strict_payment_otp_modal
       THEN pc' = "post_loop"       \* returns False: break
       ELSE pc' = "click_cands"
    /\ UNCHANGED << harnessVars, config, envVars, otp, otpInput, loopVars,
                    resVars, outcome, fills, clicks, snaps >>

\* _click_payment_otp_submit_button: configured selector, then the cascade
ClickCandidates ==
    /\ pc = "click_cands"
    /\ LET r == click_in_modal
       IN  IF r = NoClick
           THEN /\ pc' = "post_loop"     \* returns False: break
                /\ UNCHANGED << clicks, evPoll >>
           ELSE /\ clicks' = Append(clicks, [ el |-> r.el, how |-> r.how,
                                              att |-> attempt ])
                /\ pc' = "evidence"
                /\ evPoll' = 0
    /\ UNCHANGED << harnessVars, config, envVars, otp, otpInput, attempt,
                    submitted, closedNoFb, submitState, resVars, outcome,
                    fills, snaps, obs >>


(***************************************************************************)
(* _wait_for_otp_submit_evidence                                           *)
(***************************************************************************)
\* one iteration of the poll loop; page.wait_for_timeout raises on a closed
\* page and nothing in the step catches it
EvidencePoll ==
    /\ pc = "evidence"
    /\ evPoll < EvidencePolls
    /\ IF otp_submit_feedback_detected
       THEN /\ submitState' = "feedback"
            /\ pc' = "after_evidence"
            /\ obs' = [ obs EXCEPT !.fbClicks =
                          IF @ = -1 THEN Len(clicks) ELSE @,
                                   !.evAttempt = attempt ]
            /\ UNCHANGED << evPoll, outcome >>
       ELSE IF pageClosed
       THEN Fail(Unexpected) /\ UNCHANGED << submitState, evPoll, obs >>
       ELSE /\ evPoll' = evPoll + 1
            /\ UNCHANGED << submitState, pc, outcome, obs >>
    /\ UNCHANGED << harnessVars, config, envVars, otp, otpInput, attempt,
                    submitted, closedNoFb, resVars, fills, clicks, snaps >>

\* the checks after the loop
final_evidence_state ==
    IF otp_submit_feedback_detected THEN "feedback"
    ELSE IF otp_strict_modal_still_visible THEN "modal_open"
    ELSE "closed_no_feedback"

EvidenceFinal ==
    /\ pc = "evidence"
    /\ evPoll = EvidencePolls
    /\ submitState' = final_evidence_state
    /\ obs' = [ obs EXCEPT !.fbClicks =
                  IF final_evidence_state = "feedback" /\ @ = -1
                  THEN Len(clicks) ELSE @,
                           !.evAttempt = attempt,
                           !.evClosed = pageClosed ]
    /\ pc' = "after_evidence"
    /\ UNCHANGED << harnessVars, config, envVars, otp, otpInput, attempt,
                    submitted, closedNoFb, evPoll, resVars, outcome, fills,
                    clicks, snaps >>

(***************************************************************************)
(* run_checkout_and_payment: the confirm-click loop and what follows       *)
(***************************************************************************)
\* the body of the loop after the evidence wait returned
loop_decision ==
    IF submitState = "feedback" /\ otp_modal_submitted THEN "submitted"
    ELSE IF submitState = "closed_no_feedback" THEN "closed"
    ELSE IF attempt < Attempts THEN "retry"
    ELSE "exhausted"

AfterEvidence ==
    /\ pc = "after_evidence"
    /\ LET d == loop_decision
       IN  /\ submitted' = (d = "submitted")
           /\ closedNoFb' = (d = "closed")
           /\ attempt' = IF d = "retry" THEN attempt + 1 ELSE attempt
           /\ pc' = IF d = "retry" THEN "click_modal" ELSE "post_loop"
    /\ UNCHANGED << harnessVars, config, envVars, otp, otpInput, submitState,
                    evPoll, resVars, outcome, fills, clicks, snaps, obs >>

after_loop_NoSnapshot ==
    IF submitted THEN "snapshot_submitted"
    ELSE IF otp_strict_modal_still_visible THEN "still_open"
    ELSE "closed"

\* `if not submitted: ...` after the loop
after_loop ==
    IF submitted THEN "snapshot_submitted"
    ELSE IF otp_strict_modal_still_visible THEN "still_open"
    ELSE IF closedNoFb THEN "snapshot_closed"
    ELSE "closed"

PostLoop ==
    /\ pc = "post_loop"
    /\ LET a == after_loop
       IN  CASE a = "snapshot_submitted" ->
                  /\ save_snapshot("payment_otp_submitted")
                  /\ pc' = "stabilize"
                  /\ UNCHANGED outcome
             [] a = "still_open" -> Fail(CheckoutErr.StillOpen) /\ UNCHANGED snaps
             [] a = "snapshot_closed" ->
                  /\ save_snapshot("payment_otp_closed_no_feedback")
                  /\ Fail(CheckoutErr.ClosedNoFeedback)
             [] OTHER -> Fail(CheckoutErr.ClosedNoFeedback) /\ UNCHANGED snaps
    /\ UNCHANGED << harnessVars, config, envVars, otp, otpInput, loopVars,
                    resVars, fills, clicks, obs >>

\* visible_locator_by_selectors(page, ["body"], timeout_ms=4000), then the
\* entry of _wait_for_payment_processing_result
Stabilize ==
    /\ pc = "stabilize"
    /\ IF pageClosed
       THEN Fail(Unexpected) /\ UNCHANGED obs
       ELSE \E bodyVisible \in BOOLEAN :
              IF bodyVisible
              THEN /\ pc' = "result_wait"
                   /\ obs' = [ obs EXCEPT !.resultWait = TRUE ]
                   /\ UNCHANGED outcome
              ELSE Fail(CheckoutErr.NoVisibleElement) /\ UNCHANGED obs
    /\ UNCHANGED << harnessVars, config, envVars, otp, otpInput, loopVars,
                    resVars, fills, clicks, snaps >>


(***************************************************************************)
(* _wait_for_payment_processing_result                                     *)
(***************************************************************************)
poll_verdict_PendingEnds ==
    IF pageClosed THEN "unknown"
    ELSE IF config.success_text # "" /\ text_exists(config.success_text) THEN "success"
    ELSE IF config.failure_text # "" /\ text_exists(config.failure_text) THEN "failure"
    ELSE IF (\E t \in VisibleTexts : success_regex(t)) THEN "success"
    ELSE IF (\E t \in VisibleTexts : failure_regex(t)) THEN "failure"
    ELSE IF (\E t \in VisibleTexts : pending_regex(t)) THEN "unknown"
    ELSE "sleep"

poll_verdict_NoFailureRegex ==
    IF pageClosed THEN "unknown"
    ELSE IF config.success_text # "" /\ text_exists(config.success_text) THEN "success"
    ELSE IF config.failure_text # "" /\ text_exists(config.failure_text) THEN "failure"
    ELSE IF (\E t \in VisibleTexts : success_regex(t)) THEN "success"
    ELSE "sleep"

\* one iteration of the poll loop: the value returned, or "sleep" when the
\* iteration ends in page.wait_for_timeout(500) (with or without a pending
\* marker or an open code modal: both branches only sleep)
poll_verdict ==
    IF pageClosed THEN "unknown"
    ELSE IF config.success_text # "" /\ text_exists(config.success_text) THEN "success"
    ELSE IF config.failure_text # "" /\ text_exists(config.failure_text) THEN "failure"
    ELSE IF (\E t \in VisibleTexts : success_regex(t)) THEN "success"
    ELSE IF (\E t \in VisibleTexts : failure_regex(t)) THEN "failure"
    ELSE "sleep"

\* what the page shows at the moment of a poll
SuccessShown ==
    ~pageClosed /\ \E t \in texts :
        success_regex(t) \/ ContainsIgnoreCase(t, config.success_text)
FailureShown ==
    ~pageClosed /\ \E t \in texts :
        failure_regex(t) \/ ContainsIgnoreCase(t, config.failure_text)
PendingShown == ~pageClosed /\ \E t \in texts : pending_regex(t)

PollView ==
    IF pageClosed THEN "closed"
    ELSE IF SuccessShown /\ FailureShown THEN "both"
    ELSE IF SuccessShown THEN "success"
    ELSE IF FailureShown THEN "failure"
    ELSE IF PendingShown THEN "pending"
    ELSE "idle"

ResultPoll ==
    /\ pc = "result_wait"
    /\ resPoll < ResultPolls
    /\ obs' = [ obs EXCEPT !.lastPoll = PollView,
                           !.pendingSeen = @ \/ PollView = "pending",
                           !.sawSuccess = @ \/ SuccessShown,
                           !.sawFailure = @ \/ FailureShown ]
    /\ LET v == poll_verdict
       IN  IF v = "sleep"
           THEN /\ resPoll' = resPoll + 1
                /\ IF resPoll + 1 = ResultPolls
                   THEN result' = "unknown" /\ pc' = "report"
                   ELSE UNCHANGED << result, pc >>
           ELSE /\ result' = v
                /\ pc' = "report"
                /\ UNCHANGED resPoll
    /\ UNCHANGED << harnessVars, config, envVars, otp, otpInput, loopVars,
                    outcome, fills, clicks, snaps >>

\* the snapshot label run_checkout_and_payment uses for a result
report_label ==
    IF result = "success" THEN "payment_success"
    ELSE IF result = "failure" THEN "payment_failure"
    ELSE "payment_result_unknown"

\* lines after the final wait: snapshot, then return or raise
Report ==
    /\ pc = "report"
    /\ save_snapshot(report_label)
    /\ pc' = "done"
    /\ outcome' = IF result = "success" THEN "ok"
                  ELSE IF result = "failure" THEN CheckoutErr.PaymentFailure[config.failure_text # ""]
                  ELSE CheckoutErr.ResultUnknown
    /\ UNCHANGED << harnessVars, config, envVars, otp, otpInput, loopVars,
                    resVars, fills, clicks, obs >>

(***************************************************************************)
(* The browser                                                             *)
(***************************************************************************)
Running == pc \notin { "done", "idle" }

\* the positions whose next step reads the strict modal, and those whose next
\* step reads the visible texts: a change at any other position could not be
\* told from the same change made just before the next read
ModalReadAt == { "fill_modal", "fill_input", "fill_do", "click_modal",
                 "click_cands", "evidence", "post_loop" }
TextsReadAt == { "evidence", "after_evidence", "result_wait" }

EnvClosePage ==
    /\ Running /\ ~pageClosed
    /\ pageClosed' = TRUE
    /\ modalVisible' = FALSE
    /\ texts' = {}
    /\ UNCHANGED << harnessVars, config, dom, pc, otp, otpInput, loopVars,
                    resVars, outcome, fills, clicks, snaps, obs >>

EnvToggleModal ==
    /\ pc \in ModalReadAt /\ ~pageClosed
    /\ modalVisible' = ~modalVisible
    /\ UNCHANGED << harnessVars, config, dom, pageClosed, texts, pc, otp,
                    otpInput, loopVars, resVars, outcome, fills, clicks, snaps,
                    obs >>

EnvChangeTexts ==
    /\ pc \in TextsReadAt /\ ~pageClosed
    /\ \E T \in TextSets : T # texts /\ texts' = T
    /\ UNCHANGED << harnessVars, config, dom, pageClosed, modalVisible, pc,
                    otp, otpInput, loopVars, resVars, outcome, fills, clicks,
                    snaps, obs >>

(***************************************************************************)
(* Text as sequences of characters, for the functions that work on the     *)
(* characters of a string (src/src/utils/ui.py, src/src/steps/favorites.py)*)
(***************************************************************************)
MaxMoneyLen == 2       \* length of the generated amounts shown on the page

\* str.isdigit() and str.isspace() of one character
isdigit(ch) == ch \in { "0", "1", "2", "3", "4", "5", "6", "7", "8", "9" }
isspace(ch) == ch \in { " ", "\t", "\n" }

\* str.lower(), over the capital letters of the model's texts
str_lower(s) ==
    LET Capitals == << "A", "E", "G", "M", "N", "R", "S", "E_GRAVE" >>
        Smalls == << "a", "e", "g", "m", "n", "r", "s", "e_grave" >>
    IN  [ i \in 1..Len(s) |->
            IF \E k \in 1..Len(Capitals) : Capitals[k] = s[i]
            THEN Smalls[CHOOSE k \in 1..Len(Capitals) : Capitals[k] = s[i]]
            ELSE s[i] ]

\* str.strip()
RECURSIVE str_lstrip(_)
str_lstrip(s) ==
    IF s # << >> /\ isspace(Head(s)) THEN str_lstrip(Tail(s)) ELSE s

RECURSIVE str_rstrip(_)
str_rstrip(s) ==
    IF s # << >> /\ isspace(s[Len(s)])
    THEN str_rstrip(SubSeq(s, 1, Len(s) - 1))
    ELSE s

\* Python's  needle in hay
str_contains(hay, needle) ==
    \E i \in 0..(Len(hay) - Len(needle)) :
        SubSeq(hay, i + 1, i + Len(needle)) = needle

(***************************************************************************)
(* normalize_money and _validate_total                                     *)
(***************************************************************************)
money_char_KeepsDot(ch) == isdigit(ch) \/ ch \in { ",", "." }
money_char(ch) == isdigit(ch) \/ ch = ","

normalize_money(value) == SelectSeq(value, money_char)

\* text_exists(page, text) over the text the page shows;
\* page.get_by_text(text, exact=False) is a case-insensitive substring match
page_text_exists(m, text) ==
    m.shown /\ str_contains(str_lower(m.displayed), str_lower(text))

\* the amounts of the model: values of EXPECTED_TOTAL and texts of the total
Amount ==
    [ a_123_45 |-> << "1", "2", "3", ",", "4", "5" >>,
      rs_123_45 |-> << "R", "$", " ", "1", "2", "3", ",", "4", "5" >>,
      rs_120_00 |-> << "R", "$", " ", "1", "2", "0", ",", "0", "0" >>,
      rs_1_123_45 |->
          << "R", "$", " ", "1", ".", "1", "2", "3", ",", "4", "5" >>,
      rs_1_234_56 |->
          << "R", "$", " ", "1", ".", "2", "3", "4", ",", "5", "6" >>,
      a_1234_56 |-> << "1", "2", "3", "4", ",", "5", "6" >>,
      total_123_45 |->
          << " ", "r", "$", " ", "1", "2", "3", ",", "4", "5", "\n" >> ]

\* what _validate_total returns ("ok") or raises, with the values the error
\* message carries; kind "none" before the call
TotalVerdict(kind, expected, actual, hasActual) ==
    [ kind |-> kind, expected |-> expected, actual |-> actual,
      hasActual |-> hasActual ]

\* _validate_total(page, config): the value it returns or the error it raises
validate_total(m) ==
    LET expected == normalize_money(m.expected_total) IN
    IF m.total_selector # ""
    THEN IF ~m.shown
         THEN TotalVerdict("PlaywrightTimeoutError", << >>, << >>, FALSE)
         ELSE LET actual_text == m.displayed
                  actual == normalize_money(actual_text)
              IN  IF expected # actual
                  THEN TotalVerdict("AutomationError", m.expected_total,
                                  str_rstrip(str_lstrip(actual_text)), TRUE)
                  ELSE TotalVerdict("ok", << >>, << >>, FALSE)
    ELSE IF ~page_text_exists(m, m.expected_total)
         THEN TotalVerdict("AutomationError", m.expected_total, << >>, FALSE)
         ELSE TotalVerdict("ok", << >>, << >>, FALSE)

(***************************************************************************)
(* _normalize_text and _find_favorite_row (src/src/steps/favorites.py)     *)
(***************************************************************************)
MaxRows == 2           \* rows of the favorites table

\* unicodedata.normalize("NFKD", .): a letter with a grave accent becomes
\* the letter followed by the combining accent
RECURSIVE nfkd(_)
nfkd(s) ==
    IF s = << >> THEN << >>
    ELSE ( CASE Head(s) = "e_grave" -> << "e", "COMBINING_GRAVE" >>
             [] Head(s) = "E_GRAVE" -> << "E", "COMBINING_GRAVE" >>
             [] OTHER -> << Head(s) >> ) \o nfkd(Tail(s))

\* " ".join(value.split()): runs of whitespace become one space, none at
\* the ends
RECURSIVE join_split(_)
join_split(s) ==
    LET t == str_lstrip(s) IN
    IF t = << >> THEN << >>
    ELSE IF Len(t) > 1 /\ isspace(t[2])
         THEN LET rest == join_split(Tail(t)) IN
              IF rest = << >> THEN << Head(t) >>
              ELSE << Head(t), " " >> \o rest
         ELSE << Head(t) >> \o join_split(Tail(t))

normalize_text(value) ==
    LET lowered == str_lower(str_rstrip(str_lstrip(value)))
        normalized == nfkd(lowered)
        \* not unicodedata.combining(ch)
        not_combining(ch) == ch # "COMBINING_GRAVE"
        without_marks == SelectSeq(normalized, not_combining)
    IN  join_split(without_marks)

\* the values of FAVORITE_ITEM_NAME_EXACT of the model
FavoriteName ==
    [ Mega_Sena |-> << "M", "e", "g", "a", "-", "S", "e", "n", "a" >>,
      mega_sena |-> << "m", "e", "g", "a", " ", "s", "e", "n", "a" >>,
      Sena |-> << "S", "E", "N", "A" >> ]

\* the texts of the rows of the favorites table of the model
RowText ==
    [ MEGA_SENA |-> << "M", "E", "G", "A", " ", "S", "E", "N", "A" >>,
      mega_sena_grave |->
          << "m", "e", "g", "a", "-", "s", "e_grave", "n", "a" >>,
      MEGA_SENA_GRAVE_wide |->
          << " ", "M", "E", "G", "A", "-", "S", "E_GRAVE", "N", "A", "\t",
             " ", "6" >>,
      Mega__Sena |-> << "M", "e", "g", "a", " ", "\n", "S", "e", "n", "a" >>,
      gema |-> << "g", "e", "m", "a" >> ]

NoRow == 0

MaxControls == 3       \* links and buttons of the last cell of a row

\* what of a control the selectors of _click_add_to_cart_in_row match
ControlMarks == { "none", "title", "aria", "icon" }

\* the controls a row can have in its last cell, in document order
RowControls ==
    UNION { [ 1..k -> [ mark : ControlMarks, clickable : BOOLEAN ] ] :
            k \in 0..MaxControls }

NoControl == 0

\* the messages of the AutomationError that run_favorites_flow raises for
\* the add-to-cart action
FavErr ==
    [ Selector |->
        "Favorite row found, but add button selector did not match a clickable element",
      NoAction |->
        "Favorite row found, but no clickable add-to-cart action was detected" ]

\* the names of action_candidates in the order tried
RowCascade == << "title", "aria", "i.icon", ".icon", "nth(1)", "first" >>

\* _click_add_to_cart_in_row: the control clicked and the candidate that
\* took the click, NoControl when it returns False.  Each candidate is the
\* first match of its selector (.nth(1) the second), tried by _try_click
click_add_to_cart_in_row(controls) ==
    LET n == Len(controls)
        FirstWith(m) ==
            IF \E c \in 1..n : controls[c].mark = m
            THEN CHOOSE c \in 1..n :
                    /\ controls[c].mark = m
                    /\ \A d \in 1..(c - 1) : controls[d].mark # m
            ELSE NoControl
        cand == << FirstWith("title"), FirstWith("aria"), FirstWith("icon"),
                   FirstWith("icon"),
                   IF n >= 2 THEN 2 ELSE NoControl,
                   IF n >= 1 THEN 1 ELSE NoControl >>
        works == { i \in 1..Len(RowCascade) :
                     cand[i] # NoControl /\ controls[cand[i]].clickable }
    IN  IF works = {} THEN [ clicked |-> NoControl, via |-> "none" ]
        ELSE LET i == CHOOSE w \in works : \A v \in works : w <= v
             IN  [ clicked |-> cand[i], via |-> RowCascade[i] ]

\* the loop of _find_favorite_row from row idx on: the index of the row it
\* returns, NoRow for None
RECURSIVE FindRowFrom(_, _, _)
FindRowFrom(rows, target, idx) ==
    IF idx > Len(rows) THEN NoRow
    ELSE IF ~rows[idx].readable THEN FindRowFrom(rows, target, idx + 1)
    ELSE IF str_contains(normalize_text(rows[idx].text), target) THEN idx
    ELSE FindRowFrom(rows, target, idx + 1)

find_favorite_row(rows, favorite_name) ==
    FindRowFrom(rows, normalize_text(favorite_name), 1)

(***************************************************************************)
(* The login step (src/src/steps/login.py).  The browser context holds two *)
(* page handles: the page run_login was given and a tab the site may open. *)
(* A page shows one of the screens below; what the probes of the step see  *)
(* follows from the screen.                                                *)
(***************************************************************************)
MaxLoginPolls == 2     \* cap on the polls of each 30 s login wait

LoginDomain == "login.caixa.gov.br"
BaseUrl == "base_url"
SiteUrl == "site_url"

\* inputs: "user" is a text input for the CPF, "pass" a password input,
\* "code" an input for the e-mail code.  marker: 'Minha Conta' or 'Ola' is
\* visible.  cta: the text ACCESS_LOGIN_TEXT is visible.
ScreenOf ==
    [ home_anon |-> [ url |-> BaseUrl, inputs |-> {}, marker |-> FALSE,
            cta |-> TRUE, controls |-> { "access" } ],
      home_auth |-> [ url |-> BaseUrl, inputs |-> {}, marker |-> TRUE,
            cta |-> FALSE, controls |-> {} ],
      site_home |-> [ url |-> SiteUrl, inputs |-> {}, marker |-> TRUE,
            cta |-> FALSE, controls |-> {} ],
      login_user |-> [ url |-> LoginDomain, inputs |-> { "user" }, marker |-> FALSE,
            cta |-> FALSE, controls |-> { "next" } ],
      login_user_pass |-> [ url |-> LoginDomain, inputs |-> { "user", "pass" }, marker |-> FALSE,
            cta |-> FALSE, controls |-> { "submit" } ],
      login_pass |-> [ url |-> LoginDomain, inputs |-> { "pass" }, marker |-> FALSE,
            cta |-> FALSE, controls |-> { "submit" } ],
      login_code |-> [ url |-> LoginDomain, inputs |-> { "code" }, marker |-> FALSE,
            cta |-> FALSE, controls |-> { "otp_submit" } ],
      login_choice |-> [ url |-> LoginDomain, inputs |-> {}, marker |-> FALSE,
            cta |-> FALSE, controls |-> { "receive" } ] ]

\* a closed page keeps the URL it had
ClosedOf ==
    [ u \in { BaseUrl, SiteUrl, LoginDomain } |->
        CASE u = BaseUrl -> "closed_base"
          [] u = SiteUrl -> "closed_site"
          [] OTHER -> "closed_login" ]

NotOpened == "none"

\* not page.is_closed(), for a page of page.context.pages
IsOpen(pages, p) == pages[p] \in DOMAIN ScreenOf

\* page.url
UrlOf(pages, p) ==
    IF IsOpen(pages, p) THEN ScreenOf[pages[p]].url
    ELSE CHOOSE u \in DOMAIN ClosedOf : ClosedOf[u] = pages[p]

InputsOf(pages, p) ==
    IF IsOpen(pages, p) THEN ScreenOf[pages[p]].inputs ELSE {}

ControlsOf(pages, p) ==
    IF IsOpen(pages, p) THEN ScreenOf[pages[p]].controls ELSE {}

\* the input kinds that match _username_selectors, _password_selectors and
\* _login_otp_selectors: both the CPF input and the code input are
\* input[type='text'] or alike
login_selectors ==
    [ username |-> { "user" }, password |-> { "pass" },
      otp |-> { "code", "user" } ]

\* a PlaywrightError of the closed page is caught and gives False
login_inputs_visible(pages, p) == InputsOf(pages, p) \cap login_selectors.username # {}
password_visible(pages, p) == InputsOf(pages, p) \cap login_selectors.password # {}
login_otp_visible(pages, p) == InputsOf(pages, p) \cap login_selectors.otp # {}

\* _is_login_domain: "login.caixa.gov.br" in page.url
is_login_domain(pages, p) == UrlOf(pages, p) = LoginDomain

\* _is_logged_in_session: "True", "False", or the error of a closed page
is_logged_in_session_CtaRequired(pages, p) ==
    IF \/ login_inputs_visible(pages, p)
       \/ password_visible(pages, p)
       \/ login_otp_visible(pages, p)
    THEN "False"
    ELSE IF is_login_domain(pages, p) THEN "False"
    ELSE IF ~IsOpen(pages, p) THEN "PlaywrightError"
    ELSE IF ScreenOf[pages[p]].marker /\ ScreenOf[pages[p]].cta
         THEN "True" ELSE "False"
is_logged_in_session(pages, p) ==
    IF \/ login_inputs_visible(pages, p)
       \/ password_visible(pages, p)
       \/ login_otp_visible(pages, p)
    THEN "False"
    ELSE IF is_login_domain(pages, p) THEN "False"
    ELSE IF ~IsOpen(pages, p) THEN "PlaywrightError"
    ELSE IF ScreenOf[pages[p]].marker /\ ~ScreenOf[pages[p]].cta
         THEN "True" ELSE "False"

NoPage == 0

resolve_active_page_KeepsClosedHandle(pages, page) ==
    LET other == 3 - page IN
    IF \A h \in { 1, 2 } : ~IsOpen(pages, h) THEN NoPage
    ELSE IF ~IsOpen(pages, page) THEN page
    ELSE IF ~is_login_domain(pages, page) THEN page
    ELSE IF IsOpen(pages, other) THEN other
    ELSE page

\* _resolve_active_page: the handle it returns, NoPage when it raises
resolve_active_page(pages, page) ==
    LET other == 3 - page IN    \* the other handle of the context
    IF \A h \in { 1, 2 } : ~IsOpen(pages, h) THEN NoPage
    ELSE IF ~IsOpen(pages, page) THEN other
    ELSE IF ~is_login_domain(pages, page) THEN page
    ELSE IF IsOpen(pages, other) THEN other
    ELSE page

PrepareAttempts == 4
LoginWaitTimeoutMs == 30000
LoginPollMs == 250
LoginPolls == Min(LoginWaitTimeoutMs \div LoginPollMs, MaxLoginPolls)

\* the messages of the AutomationErrors of the login step
LoginErr ==
    [ LoginFormNotVisible |->
          "Login form was not visible after handling interstitials",
      NextClick |-> "Unable to click login next button",
      LoginStepTimeout |->
          "Login did not advance to password or validation code step after clicking next",
      LoginOtpEmpty |-> "Login email OTP cannot be empty",
      LoginOtpSubmit |-> "Unable to click login OTP submit button",
      AfterOtpTimeout |-> "Login did not complete after OTP submission",
      SubmitAfterOtp |-> "Unable to click login submit button after OTP",
      Submit |-> "Unable to click login submit button",
      StillOnLogin |-> "Still on login page after OTP submission",
      NoActivePages |-> "Browser has no active pages after login transition",
      NoVisibleInput |-> "No visible element found for selectors" ]

(***************************************************************************)
(* The selector cascades of src/src/utils/ui.py and _find_visible_in_scope, *)
(* _try_click of src/src/steps/checkout.py, applied to a list of selectors *)
(* and a page: the selectors that have a visible first match, whether the  *)
(* searched text is shown, whether the page is closed.                     *)
(***************************************************************************)
MaxSelectors == 3      \* length of a selector list

\* _first_non_empty(values)
first_non_empty_KeepsBlanks(values) == values
first_non_empty(values) ==
    LET NotBlank(s) == ~IsBlank(s) IN SelectSeq(values, NotBlank)

\* locator.wait_for(state="visible", timeout=...): "visible", or the error
\* raised: a timeout, or another PlaywrightError for a closed page and for a
\* selector that does not parse
wait_for_visible(pg, selector) ==
    IF pg.closed \/ IsBlank(selector) THEN "PlaywrightError"
    ELSE IF selector \in pg.visible THEN "visible"
    ELSE "PlaywrightTimeoutError"

\* the loops of visible_locator_by_selectors and
\* find_visible_locator_by_selectors from candidate i on: the selector whose
\* locator is returned, "PlaywrightError" when the wait raises one, and
\* exhausted when the loop ends
RECURSIVE UiCascadeFrom(_, _, _, _)
UiCascadeFrom(pg, selectors, i, exhausted) ==
    IF i > Len(selectors) THEN exhausted
    ELSE LET w == wait_for_visible(pg, selectors[i]) IN
         IF w = "visible" THEN selectors[i]
         ELSE IF w = "PlaywrightTimeoutError"
              THEN UiCascadeFrom(pg, selectors, i + 1, exhausted)
         ELSE "PlaywrightError"

visible_locator_by_selectors(pg, selectors) ==
    UiCascadeFrom(pg, first_non_empty(selectors), 1, "AutomationError")

find_visible_locator_by_selectors(pg, selectors) ==
    UiCascadeFrom(pg, first_non_empty(selectors), 1, "None")

\* _find_visible_in_scope(scope, selectors) with the page as scope
RECURSIVE ScopeCascadeFrom(_, _, _)
ScopeCascadeFrom(pg, selectors, i) ==
    IF i > Len(selectors) THEN "None"
    ELSE IF IsBlank(selectors[i]) THEN ScopeCascadeFrom(pg, selectors, i + 1)
    ELSE IF wait_for_visible(pg, selectors[i]) = "visible" THEN selectors[i]
    ELSE ScopeCascadeFrom(pg, selectors, i + 1)

find_visible_in_page(pg, selectors) == ScopeCascadeFrom(pg, selectors, 1)

\* _try_click(locator) for the locator of a selector
try_click(pg, selector) ==
    IF wait_for_visible(pg, selector) = "visible" THEN "True" ELSE "False"

\* text_exists(page, text) for the searched text
text_exists_on(pg) == IF ~pg.closed /\ pg.textShown THEN "True" ELSE "False"

(***************************************************************************)
(* The polling waits of src/src/steps/checkout.py.  A wait probes what the *)
(* page shows, sleeps, and probes again, a bounded number of times.        *)
(***************************************************************************)
MaxWaitPolls == 4      \* cap on the polls of one wait

SubmitTimeoutMs == 8000
SubmitPollMs == 250
ModalGoneTimeoutMs == 8000
ModalGonePollMs == 250

\* polls = max(1, timeout_ms // poll_ms)
WaitPolls(kind) ==
    LET polls ==
          CASE kind = "_wait_for_payment_submit" ->
                  Max(1, SubmitTimeoutMs \div SubmitPollMs)
            [] kind = "_wait_for_otp_submit_evidence" ->
                  Max(1, EvidenceTimeoutMs \div EvidencePollMs)
            [] kind = "_wait_for_payment_processing_result" ->
                  Max(1, ResultTimeoutMs \div ResultPollMs)
            [] OTHER -> Max(1, ModalGoneTimeoutMs \div ModalGonePollMs)
    IN  Min(polls, MaxWaitPolls)

\* what the page can show to the probe of each wait
WaitShows(kind) ==
    CASE kind = "_wait_for_payment_submit" -> { "none", "submit label" }
      [] kind = "_wait_for_otp_submit_evidence" ->
            { "modal open", "feedback", "none" }
      [] kind = "_wait_for_payment_processing_result" ->
            { "none", "pending", "success", "failure" }
      [] OTHER -> { "modal open", "modal gone" }

\* the probe inside the loop: the value the wait returns at once, or
\* "continue"
wait_probe(kind, shown) ==
    CASE kind = "_wait_for_payment_submit" /\ shown = "submit label" -> "True"
      [] kind = "_wait_for_otp_submit_evidence" /\ shown = "feedback" ->
            "feedback"
      [] kind = "_wait_for_payment_processing_result"
           /\ shown \in { "success", "failure" } -> shown
      [] kind = "modal_gone" /\ shown = "modal gone" -> "True"
      [] OTHER -> "continue"

\* the code after the loop: the value the wait returns when the polls are
\* used up
wait_exhausted(kind, shown) ==
    CASE kind = "_wait_for_payment_submit" -> "False"
      [] kind = "_wait_for_otp_submit_evidence" ->
            IF shown = "feedback" THEN "feedback"
            ELSE IF shown = "modal open" THEN "modal_open"
            ELSE "closed_no_feedback"
      [] kind = "_wait_for_payment_processing_result" -> "unknown"
      [] OTHER -> "True"

(***************************************************************************)
(* The steps below are idle while another specification runs               *)
(***************************************************************************)
Idle ==
    [ money |->
          [ expected_total |-> Amount.a_123_45, total_selector |-> "",
            shown |-> FALSE, displayed |-> << >>,
            verdict |-> TotalVerdict("none", << >>, << >>, FALSE),
            norm |-> << >> ],
      fav |->
          [ name |-> FavoriteName.Mega_Sena, rows |-> << >>,
            searched |-> FALSE, row |-> NoRow, selector |-> "",
            controls |-> << >>, clicked |-> NoControl, via |-> "none",
            added |-> "none" ],
      browser |->
          [ pages |-> << "home_anon", NotOpened >>, interstitials |-> {} ],
      login |->
          [ pc |-> "idle", page |-> 1, step |-> "unknown", pass |-> 1,
            poll |-> 0, received |-> FALSE, clicks |-> {}, fills |-> {},
            prompts |-> 0, snaps |-> {}, outcome |-> "running",
            returned_url |-> "", everUnauth |-> FALSE,
            passwordFirst |-> FALSE, earlyPrompt |-> FALSE ],
      resolver |->
          [ selectors |-> << >>, visible |-> {}, textShown |-> FALSE,
            closed |-> FALSE,
            results |->
                [ f \in { "visible_locator_by_selectors",
                          "find_visible_locator_by_selectors",
                          "_find_visible_in_scope", "_try_click",
                          "text_exists" } |-> "not called" ] ],
      waits |->
          [ kind |-> "_wait_for_payment_submit", shown |-> "none",
            poll |-> 0, phase |-> "idle", result |-> "none",
            atReturn |-> "none" ],
      run |->
          [ pc |-> "idle", playwright |-> FALSE, context |-> FALSE,
            page |-> NoPage, driver |-> "off", ctx |-> "none", closed |-> {},
            steps |-> << >>, unexpected |-> {}, caught |-> "none",
            shot |-> "not called", shotOut |-> "none", printed |-> "none", status |-> {},
            escaped |-> FALSE ],
      checkout |->
          [ pc |-> "idle",
            conf |-> [ cart_entry_selector |-> "", cart_entry_text |-> "",
                       checkout_button_selector |-> "",
                       use_saved_card |-> FALSE, saved_card_selector |-> "",
                       saved_card_text |-> "", saved_card_last4 |-> "" ],
            view |-> "favorites", cartView |-> "none", events |-> << >>,
            snaps |-> << >>, card |-> "none", prompts |-> 0,
            confirms |-> {}, outcome |-> "running" ] ]

UnitsIdle ==
    /\ money = Idle.money
    /\ fav = Idle.fav
    /\ browser = Idle.browser
    /\ login = Idle.login
    /\ resolver = Idle.resolver
    /\ waits = Idle.waits
    /\ run = Idle.run
    /\ checkout = Idle.checkout

(***************************************************************************)
(* Specification of the payment code step                                  *)
(***************************************************************************)
FlowInit ==
    /\ otp = ""
    /\ otpInput = NoElement
    /\ attempt = 1
    /\ submitted = FALSE
    /\ closedNoFb = FALSE
    /\ submitState = "none"
    /\ evPoll = 0
    /\ resPoll = 0
    /\ result = "none"
    /\ outcome = "running"
    /\ fills = << >>
    /\ clicks = << >>
    /\ snaps = << >>
    /\ obs = ObsInit

Init ==
    /\ cands = << >>
    /\ verdicts = << >>
    /\ config \in Configs
    /\ dom \in Doms
    /\ pageClosed = FALSE
    /\ modalVisible = FALSE
    /\ texts = {}
    /\ pc = "prompt"
    /\ FlowInit
    /\ UnitsIdle

Next ==
    \/ Prompt
    \/ FillFindModal
    \/ FillFindInput
    \/ FillDo
    \/ ClickFindModal
    \/ ClickCandidates
    \/ EvidencePoll
    \/ EvidenceFinal
    \/ AfterEvidence
    \/ PostLoop
    \/ Stabilize
    \/ ResultPoll
    \/ Report
    \/ EnvClosePage
    \/ EnvToggleModal
    \/ EnvChangeTexts

Spec == Init /\ [][Next]_vars

(***************************************************************************)
(* Specification of the classifier alone: it is applied to candidates      *)
(* drawn from CandidateInputs, in order, as the submit click does.         *)
(***************************************************************************)
ClassifyInit ==
    /\ cands \in [ 1..MaxCands -> CandidateInputs ]
    /\ verdicts = << >>
    /\ config \in { c \in Configs : c.payment_otp_submit_selector = "button"
                                    /\ c.success_text # "" /\ c.failure_text # "" }
    /\ dom = {}
    /\ pageClosed = FALSE
    /\ modalVisible = TRUE
    /\ texts = {}
    /\ FlowInit
    /\ pc = "idle"
    /\ UnitsIdle

Classify ==
    /\ pc = "idle"
    /\ Len(verdicts) < Len(cands)
    /\ verdicts' = Append(verdicts,
                          looks_like_modal_dismiss_action(cands[Len(verdicts) + 1]))
    /\ UNCHANGED << cands, config, envVars, pc, otp, otpInput, loopVars,
                    resVars, outcome, fills, clicks, snaps, obs, unitVars >>

ClassifyNext == Classify

SpecClassify == ClassifyInit /\ [][ClassifyNext]_vars


(***************************************************************************)
(* The payment code step at rest, for the specifications of other steps    *)
(***************************************************************************)
PaymentIdle ==
    /\ cands = << >>
    /\ verdicts = << >>
    /\ config = [ payment_otp_submit_selector |-> "", success_text |-> "",
                  failure_text |-> "" ]
    /\ dom = {}
    /\ pageClosed = FALSE
    /\ modalVisible = FALSE
    /\ texts = {}
    /\ pc = "idle"
    /\ FlowInit

paymentVars == << cands, verdicts, config, envVars, pc, otp, otpInput,
                  loopVars, resVars, outcome, fills, clicks, snaps, obs >>

(***************************************************************************)
(* Specification of the total validation: _validate_total and              *)
(* normalize_money applied to the configured and the displayed amount.     *)
(***************************************************************************)
MoneyInit ==
    /\ PaymentIdle
    /\ run = Idle.run
    /\ checkout = Idle.checkout
    /\ fav = Idle.fav
    /\ browser = Idle.browser
    /\ login = Idle.login
    /\ resolver = Idle.resolver
    /\ waits = Idle.waits
    \* EXPECTED_TOTAL is stripped and not empty (config._required); the total
    \* element, or the page, shows one of the amounts or a short text
    /\ money \in
         { m \in [ expected_total :
                      { Amount.a_123_45, Amount.rs_123_45, Amount.a_1234_56 },
                  total_selector : { "", "#total" },
                  shown : BOOLEAN,
                  displayed :
                      { Amount[a] : a \in DOMAIN Amount } \cup
                      UNION { [ 1..k -> { "1", ",", ".", "R", " " } ] :
                              k \in 0..MaxMoneyLen },
                  verdict : { TotalVerdict("none", << >>, << >>, FALSE) },
                  norm : { << >> } ] :
             ~m.shown => m.displayed = << >> }

\* checkout.py line 979: run_checkout_and_payment validates the total
ValidateTotal ==
    /\ money.verdict.kind = "none"
    /\ money' = [ money EXCEPT !.verdict = validate_total(money) ]
    /\ UNCHANGED << paymentVars, run, checkout, fav, browser, login, resolver, waits >>

\* normalize_money applied to the displayed text, then to its own result
NormalizeMoney ==
    /\ money.shown
    /\ Len(money.norm) < 2
    /\ money' = [ money EXCEPT !.norm =
                    Append(@, normalize_money(IF @ = << >> THEN money.displayed
                                              ELSE @[Len(@)])) ]
    /\ UNCHANGED << paymentVars, run, checkout, fav, browser, login, resolver, waits >>

MoneyNext == ValidateTotal \/ NormalizeMoney

SpecMoney == MoneyInit /\ [][MoneyNext]_vars


(***************************************************************************)
(* Specification of the favorites row lookup: _find_favorite_row applied   *)
(* to a configured name and a table of rows.                               *)
(***************************************************************************)
FavInit ==
    /\ PaymentIdle
    /\ run = Idle.run
    /\ checkout = Idle.checkout
    /\ money = Idle.money
    /\ browser = Idle.browser
    /\ login = Idle.login
    /\ resolver = Idle.resolver
    /\ waits = Idle.waits
    \* FAVORITE_ITEM_NAME_EXACT is stripped and not empty (config._required);
    \* a row of the table has its text, and inner_text answers in time or
    \* does not
    /\ fav \in [ name : { FavoriteName[n] : n \in DOMAIN FavoriteName },
                 rows : UNION { [ 1..n -> [ text : { RowText[r] :
                                                      r \in DOMAIN RowText },
                                            readable : BOOLEAN ] ] :
                                n \in 1..MaxRows },
                 searched : { FALSE }, row : { NoRow },
                 selector : { "" },
                 controls : { << >> }, clicked : { NoControl },
                 via : { "none" }, added : { "none" } ]

\* favorites.py line 215: run_favorites_flow looks the row up
FindFavoriteRow ==
    /\ ~fav.searched
    /\ fav' = [ fav EXCEPT !.searched = TRUE,
                           !.row = find_favorite_row(fav.rows, fav.name) ]
    /\ UNCHANGED << paymentVars, run, checkout, money, browser, login, resolver, waits >>

\* favorites.py lines 225-231: the add-to-cart click on the row found.
\* target is the first control of the row that FAVORITES_ADD_BUTTON_SELECTOR
\* matches, NoControl when it matches none
AddToCart ==
    /\ fav.searched /\ fav.row # NoRow /\ fav.added = "none"
    /\ \E controls \in RowControls :
         \E target \in { NoControl } \cup (1..Len(controls)) :
            LET r == click_add_to_cart_in_row(controls)
                hit == target # NoControl /\ controls[target].clickable
                f == [ fav EXCEPT !.controls = controls ]
            IN  fav' =
                  IF Strip(fav.selector) # ""
                  THEN IF hit
                       THEN [ f EXCEPT !.clicked = target, !.via = "configured",
                                       !.added = "added" ]
                       ELSE [ f EXCEPT !.added = FavErr.Selector ]
                  ELSE IF r.clicked = NoControl
                  THEN [ f EXCEPT !.added = FavErr.NoAction ]
                  ELSE [ f EXCEPT !.clicked = r.clicked, !.via = r.via,
                                  !.added = "added" ]
    /\ UNCHANGED << paymentVars, run, checkout, money, browser, login, resolver, waits >>

FavNext == FindFavoriteRow

SpecFav == FavInit /\ [][FavNext]_vars

\* the add-to-cart click of run_favorites_flow, on the row that
\* _find_favorite_row returned for the configured name, with
\* FAVORITES_ADD_BUTTON_SELECTOR unset, blank or set
AddToCartInit ==
    /\ PaymentIdle
    /\ run = Idle.run
    /\ checkout = Idle.checkout
    /\ money = Idle.money
    /\ browser = Idle.browser
    /\ login = Idle.login
    /\ resolver = Idle.resolver
    /\ waits = Idle.waits
    /\ \E selector \in { "", " ", "td.acoes a" } :
         fav = [ Idle.fav EXCEPT
                   !.rows = << [ text |-> RowText.MEGA_SENA_GRAVE_wide,
                                 readable |-> TRUE ] >>,
                   !.searched = TRUE,
                   !.row = find_favorite_row(
                               << [ text |-> RowText.MEGA_SENA_GRAVE_wide,
                                    readable |-> TRUE ] >>,
                               Idle.fav.name),
                   !.selector = selector ]

SpecAddToCart == AddToCartInit /\ [][AddToCart]_vars


(***************************************************************************)
(* Specification of the login step: run_login against a browser whose      *)
(* pages change screen, open and close between the probes of the step.     *)
(***************************************************************************)
\* return page
Returned(l, pages, p) ==
    [ l EXCEPT !.pc = "done", !.outcome = "returned", !.page = p,
               !.returned_url = UrlOf(pages, p) ]

\* raise
Raised(l, err) == [ l EXCEPT !.pc = "done", !.outcome = err ]

\* save_snapshot(page, run_dir, label)
Snap(l, label) == [ l EXCEPT !.snaps = @ \cup { label } ]

\* lines 414-418: page.goto, the snapshot, and _clear_interstitials, where
\* what is shown is clicked away
Goto ==
    /\ login.pc = "goto"
    /\ IF ~IsOpen(browser.pages, login.page)
       THEN /\ login' = Raised(login, Unexpected)
            /\ UNCHANGED browser
       ELSE /\ login' = [ Snap(login, "home_loaded") EXCEPT
                           !.pc = "session1",
                           !.clicks = @ \cup browser.interstitials ]
            /\ browser' = [ browser EXCEPT !.interstitials = {} ]
    /\ UNCHANGED << paymentVars, run, checkout, money, fav, resolver, waits >>

\* lines 419-422, and lines 425-429 once _prepare_login_page returned
CheckSession ==
    /\ login.pc \in { "session1", "session2" }
    /\ LET r == is_logged_in_session(browser.pages, login.page) IN
       login' =
         CASE r = "PlaywrightError" -> Raised(login, Unexpected)
           [] r = "True" ->
                Returned(Snap(login, "login_skipped_session_active"),
                         browser.pages, login.page)
           [] r = "False" /\ login.pc = "session1" ->
                [ login EXCEPT !.pc = "prepare" ]
           [] OTHER -> [ Snap(login, "login_ready") EXCEPT !.pc = "username" ]
    /\ UNCHANGED << browser, paymentVars, run, checkout, money, fav, resolver, waits >>

\* _prepare_login_page, the checks that open an iteration
PrepareTop ==
    /\ login.pc = "prepare"
    /\ LET r == is_logged_in_session(browser.pages, login.page) IN
       login' = IF login_inputs_visible(browser.pages, login.page)
                THEN [ login EXCEPT !.pc = "session2" ]
                ELSE CASE r = "PlaywrightError" -> Raised(login, Unexpected)
                       [] r = "True" -> [ login EXCEPT !.pc = "session2" ]
                       [] OTHER -> [ login EXCEPT !.pc = "prepare_click" ]
    /\ UNCHANGED << browser, paymentVars, run, checkout, money, fav, resolver, waits >>

\* _prepare_login_page, the interstitials and the click on the login access
PrepareClick ==
    /\ login.pc = "prepare_click"
    /\ IF ~IsOpen(browser.pages, login.page)
       THEN /\ login' = Raised(login, Unexpected)
            /\ UNCHANGED browser
       ELSE /\ login' = [ login EXCEPT !.pc = "prepare_recheck",
                            !.clicks = @ \cup browser.interstitials \cup
                               (ControlsOf(browser.pages, login.page)
                                  \cap { "access" }) ]
            /\ browser' = [ browser EXCEPT !.interstitials = {} ]
    /\ UNCHANGED << paymentVars, run, checkout, money, fav, resolver, waits >>

\* _prepare_login_page, the checks that close an iteration and the loop end
PrepareRecheck ==
    /\ login.pc = "prepare_recheck"
    /\ LET r == is_logged_in_session(browser.pages, login.page) IN
       login' = IF login_inputs_visible(browser.pages, login.page)
                THEN [ login EXCEPT !.pc = "session2" ]
                ELSE CASE r = "PlaywrightError" -> Raised(login, Unexpected)
                       [] r = "True" -> [ login EXCEPT !.pc = "session2" ]
                       [] login.pass < PrepareAttempts ->
                            [ login EXCEPT !.pc = "prepare", !.pass = @ + 1 ]
                       [] ~IsOpen(browser.pages, login.page) ->
                            Raised(login, Unexpected)
                       [] OTHER ->
                            Raised(Snap(login, "login_form_not_visible"),
                                   LoginErr.LoginFormNotVisible)
    /\ UNCHANGED << browser, paymentVars, run, checkout, money, fav, resolver, waits >>

\* fill_first_available(page, value, selectors)
fill_first(l, pages, kind, inputs, onward) ==
    IF ~IsOpen(pages, l.page) THEN Raised(l, Unexpected)
    ELSE IF InputsOf(pages, l.page) \cap inputs = {}
         THEN Raised(l, LoginErr.NoVisibleInput)
    ELSE [ l EXCEPT !.pc = onward, !.fills = @ \cup { kind } ]

\* lines 432-437
FillUsername ==
    /\ login.pc = "username"
    /\ login' = fill_first(login, browser.pages, "username", login_selectors.username,
                           "step")
    /\ UNCHANGED << browser, paymentVars, run, checkout, money, fav, resolver, waits >>

\* line 456: where the flow goes once current_step is known
after_step_Inverted(step) == IF step # "otp" THEN "otp_prompt" ELSE "password"
after_step(step) == IF step = "otp" THEN "otp_prompt" ELSE "password"

\* lines 439-451
AdvanceStep ==
    /\ login.pc = "step"
    /\ login' =
         IF password_visible(browser.pages, login.page)
         THEN [ login EXCEPT !.pc = after_step("password"),
                             !.step = "password", !.passwordFirst = TRUE ]
         ELSE IF ~IsOpen(browser.pages, login.page)
              THEN Raised(login, Unexpected)
         ELSE IF "next" \in ControlsOf(browser.pages, login.page)
              THEN [ login EXCEPT !.pc = "wait_step", !.poll = 0,
                                  !.clicks = @ \cup { "next" } ]
         ELSE Raised(login, LoginErr.NextClick)
    /\ UNCHANGED << browser, paymentVars, run, checkout, money, fav, resolver, waits >>

\* one iteration of _wait_for_login_step, and lines 453-456
WaitLoginStep ==
    /\ login.pc = "wait_step"
    /\ LET p == resolve_active_page(browser.pages, login.page)
           l == [ login EXCEPT !.page = p ]
           slept == [ l EXCEPT !.poll = @ + 1 ]
       IN  login' =
             IF p = NoPage THEN Raised(login, LoginErr.NoActivePages)
             ELSE IF password_visible(browser.pages, p)
                  THEN [ Snap(l, "login_after_next") EXCEPT
                           !.pc = after_step("password"),
                           !.step = "password" ]
             ELSE IF login_otp_visible(browser.pages, p)
                  THEN [ Snap(l, "login_after_next") EXCEPT
                           !.pc = after_step("otp"), !.step = "otp" ]
             ELSE LET m == IF ~l.received
                              /\ "receive" \in ControlsOf(browser.pages, p)
                           THEN [ slept EXCEPT !.received = TRUE,
                                    !.clicks = @ \cup { "receive" } ]
                           ELSE slept
                  IN  IF m.poll >= LoginPolls
                      THEN Raised(m, LoginErr.LoginStepTimeout)
                      ELSE m
    /\ UNCHANGED << browser, paymentVars, run, checkout, money, fav, resolver, waits >>

\* lines 458-467 and 520-529: the prompt and the fill of the code
PromptLoginOtp ==
    /\ login.pc = "otp_prompt"
    /\ \E otp_ \in { "", "123456" } :
         LET l == [ login EXCEPT !.prompts = @ + 1,
                      !.earlyPrompt = @ \/ "submit" \notin login.clicks ]
         IN  login' = IF otp_ = "" THEN Raised(l, LoginErr.LoginOtpEmpty)
                      ELSE fill_first(l, browser.pages, "otp",
                                      login_selectors.otp, "otp_submit")
    /\ UNCHANGED << browser, paymentVars, run, checkout, money, fav, resolver, waits >>

\* _submit_login_otp, and the snapshot that follows it
SubmitLoginOtp ==
    /\ login.pc = "otp_submit"
    /\ LET p == resolve_active_page(browser.pages, login.page)
           l == [ login EXCEPT !.page = p ]
           onward == IF login.step = "otp"
                     THEN [ Snap(l, "login_otp_submitted") EXCEPT
                              !.pc = "wait_after_otp", !.poll = 0 ]
                     ELSE [ Snap(l, "login_otp_submitted") EXCEPT !.pc = "final" ]
       IN  login' =
             IF ~IsOpen(browser.pages, login.page)
             THEN Raised(login, Unexpected)
             ELSE IF password_visible(browser.pages, p) THEN onward
             ELSE IF /\ ~login_otp_visible(browser.pages, p)
                     /\ ~is_login_domain(browser.pages, p)
                  THEN onward
             ELSE IF "otp_submit" \in ControlsOf(browser.pages, p)
                  THEN [ onward EXCEPT !.clicks = @ \cup { "otp_submit" } ]
             ELSE IF login_otp_visible(browser.pages, p)
                  THEN [ onward EXCEPT !.clicks = @ \cup { "otp_enter" } ]
             ELSE Raised(l, LoginErr.LoginOtpSubmit)
    /\ UNCHANGED << browser, paymentVars, run, checkout, money, fav, resolver, waits >>

\* one iteration of _wait_for_password_or_login_completion, and 471-474
WaitAfterOtp ==
    /\ login.pc = "wait_after_otp"
    /\ LET p == resolve_active_page(browser.pages, login.page)
           l == [ login EXCEPT !.page = p ]
           slept == [ l EXCEPT !.poll = @ + 1 ]
       IN  login' =
             IF p = NoPage THEN Raised(login, LoginErr.NoActivePages)
             ELSE IF password_visible(browser.pages, p)
                  THEN [ l EXCEPT !.pc = "post_otp" ]
             ELSE IF ~is_login_domain(browser.pages, p)
                  THEN Returned(l, browser.pages, p)
             ELSE IF slept.poll >= LoginPolls
                  THEN Raised(slept, LoginErr.AfterOtpTimeout)
             ELSE slept
    /\ UNCHANGED << browser, paymentVars, run, checkout, money, fav, resolver, waits >>

\* lines 476-482
PostOtp ==
    /\ login.pc = "post_otp"
    /\ LET p == resolve_active_page(browser.pages, login.page) IN
       login' =
         IF p = NoPage THEN Raised(login, LoginErr.NoActivePages)
         ELSE IF ~is_login_domain(browser.pages, p)
              THEN Returned(login, browser.pages, p)
         ELSE IF ~password_visible(browser.pages, p)
              THEN Returned(login, browser.pages, p)
         ELSE [ login EXCEPT !.pc = "post_otp_fill", !.page = p ]
    /\ UNCHANGED << browser, paymentVars, run, checkout, money, fav, resolver, waits >>

\* lines 484-489
PostOtpFill ==
    /\ login.pc = "post_otp_fill"
    /\ login' = fill_first(login, browser.pages, "password", login_selectors.password,
                           "post_otp_click")
    /\ UNCHANGED << browser, paymentVars, run, checkout, money, fav, resolver, waits >>

\* lines 490-502
PostOtpClick ==
    /\ login.pc = "post_otp_click"
    /\ LET p == resolve_active_page(browser.pages, login.page)
           q == resolve_active_page(browser.pages, p)
           l == [ login EXCEPT !.page = p ]
       IN  login' =
             IF p = NoPage THEN Raised(login, LoginErr.NoActivePages)
             ELSE IF ~is_login_domain(browser.pages, p)
                  THEN Returned(l, browser.pages, p)
             ELSE IF "submit" \in ControlsOf(browser.pages, p)
                  THEN Returned(Snap([ l EXCEPT !.clicks = @ \cup { "submit" } ],
                                     "login_submitted"),
                                browser.pages, p)
             ELSE IF ~is_login_domain(browser.pages, q)
                  THEN Returned(l, browser.pages, q)
             ELSE Raised([ l EXCEPT !.page = q ], LoginErr.SubmitAfterOtp)
    /\ UNCHANGED << browser, paymentVars, run, checkout, money, fav, resolver, waits >>

\* lines 504-509
FillPassword ==
    /\ login.pc = "password"
    /\ login' = fill_first(login, browser.pages, "password", login_selectors.password,
                           "submit")
    /\ UNCHANGED << browser, paymentVars, run, checkout, money, fav, resolver, waits >>

\* lines 510-516
SubmitPassword ==
    /\ login.pc = "submit"
    /\ LET p == resolve_active_page(browser.pages, login.page)
           l == [ login EXCEPT !.page = p ]
       IN  login' =
             IF p = NoPage THEN Raised(login, LoginErr.NoActivePages)
             ELSE IF ~is_login_domain(browser.pages, p)
                  THEN Returned(l, browser.pages, p)
             ELSE IF "submit" \in ControlsOf(browser.pages, p)
                  THEN [ Snap(l, "login_submitted") EXCEPT
                           !.pc = "otp_check",
                           !.clicks = @ \cup { "submit" } ]
             ELSE Raised(l, LoginErr.Submit)
    /\ UNCHANGED << browser, paymentVars, run, checkout, money, fav, resolver, waits >>

\* line 518
CheckOtpAfterSubmit ==
    /\ login.pc = "otp_check"
    /\ login' = IF login_otp_visible(browser.pages, login.page)
                THEN [ login EXCEPT !.pc = "otp_prompt" ]
                ELSE [ login EXCEPT !.pc = "final" ]
    /\ UNCHANGED << browser, paymentVars, run, checkout, money, fav, resolver, waits >>

\* lines 533-541
\* "login" in page.url.lower() holds of the login URL alone
FinalCheck ==
    /\ login.pc = "final"
    /\ login' =
         IF UrlOf(browser.pages, login.page) = BaseUrl
         THEN Returned(login, browser.pages, login.page)
         ELSE IF UrlOf(browser.pages, login.page) = LoginDomain
              THEN Raised(login, LoginErr.StillOnLogin)
         ELSE Returned(login, browser.pages, login.page)
    /\ UNCHANGED << browser, paymentVars, run, checkout, money, fav, resolver, waits >>

\* what the run has seen of the session so far.  The session is
\* authenticated on the page run_login was given when the account marker is
\* shown, and no login call-to-action, no login input and no login URL is
Seen(l, pages) ==
    [ l EXCEPT !.everUnauth =
        @ \/ ~( /\ IsOpen(pages, 1)
                /\ ScreenOf[pages[1]].marker
                /\ ~ScreenOf[pages[1]].cta
                /\ ScreenOf[pages[1]].inputs = {}
                /\ ~is_login_domain(pages, 1) ) ]

\* a page navigates or re-renders
EnvShow ==
    /\ login.pc \notin { "idle", "done" }
    /\ \E h \in { 1, 2 } :
         \E s \in IF h = 1 THEN DOMAIN ScreenOf
                           ELSE { "site_home", "login_pass" } :
            /\ IsOpen(browser.pages, h)
            /\ s # browser.pages[h]
            /\ browser' = [ browser EXCEPT !.pages[h] = s ]
    /\ login' = Seen(login, browser'.pages)
    /\ UNCHANGED << paymentVars, run, checkout, money, fav, resolver, waits >>

\* the site opens a tab, on its home or on the password screen
EnvOpenTab ==
    /\ login.pc \notin { "idle", "done" }
    /\ browser.pages[2] = NotOpened
    /\ \E s \in { "site_home", "login_pass" } : browser' = [ browser EXCEPT !.pages[2] = s ]
    /\ UNCHANGED << login, paymentVars, run, checkout, money, fav, resolver, waits >>

\* a page is closed
EnvClose ==
    /\ login.pc \notin { "idle", "done" }
    /\ \E h \in { 1, 2 } :
         /\ IsOpen(browser.pages, h)
         /\ browser' = [ browser EXCEPT
                           !.pages[h] = ClosedOf[UrlOf(browser.pages, h)] ]
    /\ login' = Seen(login, browser'.pages)
    /\ UNCHANGED << paymentVars, run, checkout, money, fav, resolver, waits >>

LoginInit ==
    /\ PaymentIdle
    /\ run = Idle.run
    /\ checkout = Idle.checkout
    /\ money = Idle.money
    /\ fav = Idle.fav
    /\ resolver = Idle.resolver
    /\ waits = Idle.waits
    /\ browser \in [ pages : { << s, NotOpened >> : s \in DOMAIN ScreenOf },
                     interstitials : { {}, { "cookie" }, { "cookie", "age_gate", "enter_site" } } ]
    /\ login = Seen([ Idle.login EXCEPT !.pc = "goto" ], browser.pages)

LoginNext ==
    \/ Goto
    \/ CheckSession
    \/ PrepareTop
    \/ PrepareClick
    \/ PrepareRecheck
    \/ FillUsername
    \/ AdvanceStep
    \/ WaitLoginStep
    \/ PromptLoginOtp
    \/ SubmitLoginOtp
    \/ WaitAfterOtp
    \/ PostOtp
    \/ PostOtpFill
    \/ PostOtpClick
    \/ FillPassword
    \/ SubmitPassword
    \/ CheckOtpAfterSubmit
    \/ FinalCheck
    \/ EnvShow
    \/ EnvOpenTab
    \/ EnvClose

SpecLogin == LoginInit /\ [][LoginNext]_vars


(***************************************************************************)
(* Specification of the selector cascades: each helper is called once on a *)
(* list of selectors and a page.                                           *)
(***************************************************************************)
ResolverInit ==
    /\ PaymentIdle
    /\ run = Idle.run
    /\ checkout = Idle.checkout
    /\ money = Idle.money
    /\ fav = Idle.fav
    /\ browser = Idle.browser
    /\ login = Idle.login
    /\ waits = Idle.waits
    /\ resolver \in [ selectors : UNION { [ 1..n -> { "", " ", "#a", "#b" } ] :
                                          n \in 0..MaxSelectors },
                      visible : SUBSET { "#a", "#b" },
                      textShown : BOOLEAN,
                      closed : BOOLEAN,
                      results : { Idle.resolver.results } ]


CallVisibleLocator ==
    /\ resolver.results["visible_locator_by_selectors"] = "not called"
    /\ resolver' =
         [ resolver EXCEPT !.results["visible_locator_by_selectors"] =
             visible_locator_by_selectors(resolver, resolver.selectors) ]
    /\ UNCHANGED << paymentVars, run, checkout, money, fav, browser, login, waits >>

CallFindVisibleLocator ==
    /\ resolver.results["find_visible_locator_by_selectors"] = "not called"
    /\ resolver' =
         [ resolver EXCEPT !.results["find_visible_locator_by_selectors"] =
             find_visible_locator_by_selectors(resolver, resolver.selectors) ]
    /\ UNCHANGED << paymentVars, run, checkout, money, fav, browser, login, waits >>

CallFindVisibleInScope ==
    /\ resolver.results["_find_visible_in_scope"] = "not called"
    /\ resolver' =
         [ resolver EXCEPT !.results["_find_visible_in_scope"] =
             find_visible_in_page(resolver, resolver.selectors) ]
    /\ UNCHANGED << paymentVars, run, checkout, money, fav, browser, login, waits >>

CallTryClick ==
    /\ resolver.results["_try_click"] = "not called"
    /\ resolver' =
         [ resolver EXCEPT !.results["_try_click"] =
             try_click(resolver, "#a") ]
    /\ UNCHANGED << paymentVars, run, checkout, money, fav, browser, login, waits >>

CallTextExists ==
    /\ resolver.results["text_exists"] = "not called"
    /\ resolver' =
         [ resolver EXCEPT !.results["text_exists"] =
             text_exists_on(resolver) ]
    /\ UNCHANGED << paymentVars, run, checkout, money, fav, browser, login, waits >>

ResolverNext ==
    \/ CallVisibleLocator
    \/ CallFindVisibleLocator
    \/ CallFindVisibleInScope
    \/ CallTryClick
    \/ CallTextExists

SpecResolver == ResolverInit /\ [][ResolverNext]_vars


(***************************************************************************)
(* Specification of the polling waits: one wait runs against a page whose  *)
(* content changes while the wait probes and sleeps.                       *)
(***************************************************************************)
WaitsInit ==
    /\ PaymentIdle
    /\ run = Idle.run
    /\ checkout = Idle.checkout
    /\ money = Idle.money
    /\ fav = Idle.fav
    /\ browser = Idle.browser
    /\ login = Idle.login
    /\ resolver = Idle.resolver
    /\ \E kind \in { "_wait_for_payment_submit",
                     "_wait_for_otp_submit_evidence",
                     "_wait_for_payment_processing_result", "modal_gone" } :
         \E shown \in WaitShows(kind) :
            waits = [ Idle.waits EXCEPT !.kind = kind, !.shown = shown,
                                       !.phase = "probe" ]


\* the probe of one iteration
WaitProbe ==
    /\ waits.phase = "probe"
    /\ LET r == wait_probe(waits.kind, waits.shown) IN
       waits' = IF r = "continue" THEN [ waits EXCEPT !.phase = "sleep" ]
                ELSE [ waits EXCEPT !.phase = "done", !.result = r,
                                    !.atReturn = waits.shown ]
    /\ UNCHANGED << paymentVars, run, checkout, money, fav, browser, login, resolver >>

\* page.wait_for_timeout ends; after the last one the code after the loop
\* runs and the wait returns
WaitSleep ==
    /\ waits.phase = "sleep"
    /\ waits' = IF waits.poll + 1 < WaitPolls(waits.kind)
                THEN [ waits EXCEPT !.phase = "probe", !.poll = @ + 1 ]
                ELSE [ waits EXCEPT !.phase = "done", !.poll = @ + 1,
                         !.result = wait_exhausted(waits.kind, waits.shown),
                         !.atReturn = waits.shown ]
    /\ UNCHANGED << paymentVars, run, checkout, money, fav, browser, login, resolver >>

\* the page changes what it shows
EnvShowDuringWait ==
    /\ waits.phase \in { "probe", "sleep" }
    /\ \E shown \in WaitShows(waits.kind) \ { waits.shown } :
         waits' = [ waits EXCEPT !.shown = shown ]
    /\ UNCHANGED << paymentVars, run, checkout, money, fav, browser, login, resolver >>

WaitsNext == WaitProbe \/ WaitSleep \/ EnvShowDuringWait

SpecWaits == WaitsInit /\ [][WaitsNext]_vars

\* a wait that is called runs: its probes and its sleeps come to an end
\* (every Playwright call in them has a timeout), whatever the page does
SpecWaitsLive == SpecWaits /\ WF_vars(WaitProbe \/ WaitSleep)


(***************************************************************************)
(* The verdict table of the action classifier, used to state the claims    *)
(***************************************************************************)
HasConfirmSignal(c) == \E i \in 1..Len(Getters) : confirm_regex(c[Getters[i]])
HasDismissSignal(c) == \E i \in 1..Len(Getters) : dismiss_regex(c[Getters[i]])
HasCloseMarker(c) ==
    ContainsModal(c.data_dismiss) \/ ContainsModal(c.data_bs_dismiss)

ActionVerdict(c) ==
    IF HasCloseMarker(c) /\ ~(HasConfirmSignal(c) /\ ~HasDismissSignal(c))
    THEN "Dismiss"
    ELSE IF HasDismissSignal(c) THEN "Dismiss"
    ELSE IF HasConfirmSignal(c) THEN "Confirm"
    ELSE "Unknown"

(***************************************************************************)
(* Claims                                                                  *)
(***************************************************************************)

\* C1: the payment code is never typed outside the strict modal.  When the
\* strict modal was absent (or the page closed) at the lookup of
\* _fill_payment_otp_in_modal, the step ended with the "not found"
\* AutomationError and typed nothing; every input that was typed into is an
\* element attached inside the strict modal, found while the modal was there.
C1_FillOnlyInsideStrictModal ==
    /\ obs.fillProbe = "absent" =>
           pc = "done" /\ outcome = CheckoutErr.StrictModalNotFound /\ fills = << >>
    /\ fills # << >> => obs.fillProbe = "present"
    /\ \A i \in 1..Len(fills) :
           fills[i] \in dom /\ El[fills[i]].scope = "modal"

\* the modal was absent and the fill failed closed
C1_Witness ==
    /\ obs.fillProbe = "absent"
    /\ outcome = CheckoutErr.StrictModalNotFound
    /\ fills = << >>

\* C2: the submit click is modal-scoped.  An attempt that met a closed page
\* or no visible strict modal never reaches the candidates and clicks
\* nothing; every clicked element (plain, forced or script click) is attached
\* inside the strict modal.
C2_SubmitClickModalScoped ==
    /\ pc = "click_cands" => attempt \notin obs.clickAbsent
    /\ \A i \in 1..Len(clicks) :
           /\ clicks[i].el \in dom
           /\ El[clicks[i].el].scope = "modal"
           /\ clicks[i].att \notin obs.clickAbsent

\* a first attempt clicked inside the modal, the second met no modal and
\* clicked nothing
C2_Witness ==
    /\ Len(clicks) = 1
    /\ clicks[1].att = 1
    /\ 2 \in obs.clickAbsent
    /\ pc = "post_loop"

\* C3: only candidates whose verdict is Confirm are clicked by the submit
\* step; a candidate whose verdict is Unknown or Dismiss is never clicked.
C3_OnlyConfirmIsClicked ==
    \A i \in 1..Len(clicks) : ActionVerdict(El[clicks[i].el].attrs) = "Confirm"

\* C4: the classifier tells the three verdicts of the table apart: it answers
\* "dismiss" exactly for the candidates the table calls Dismiss, and two
\* candidates with the same answer have the same verdict in the table (so a
\* candidate without any signal, Unknown, is told apart from a Confirm one).
C4_ClassifyFollowsTable ==
    /\ \A i \in 1..Len(verdicts) :
           verdicts[i] = (ActionVerdict(cands[i]) = "Dismiss")
    /\ \A i, j \in 1..Len(verdicts) :
           verdicts[i] = verdicts[j] =>
               ActionVerdict(cands[i]) = ActionVerdict(cands[j])

\* C5: a candidate that carries a structural close marker is classified as
\* dismiss, except exactly when it has a confirm signal and no dismiss text.
C5_CloseMarkerForcesDismiss ==
    \A i \in 1..Len(verdicts) :
        HasCloseMarker(cands[i]) =>
            (verdicts[i] = ~(HasConfirmSignal(cands[i]) /\ ~HasDismissSignal(cands[i])))

\* a marked candidate labelled "Confirmar" without dismiss text was let through
C5_Witness ==
    \E i \in 1..Len(verdicts) :
        /\ HasCloseMarker(cands[i])
        /\ HasConfirmSignal(cands[i])
        /\ ~HasDismissSignal(cands[i])
        /\ verdicts[i] = FALSE


C7_PendingNeverEndsWait ==
    /\ obs.lastPoll = "pending" =>
           \/ result = "none" /\ pc = "result_wait"
           \/ result = "unknown" /\ resPoll = ResultPolls
    /\ (obs.pendingSeen /\ obs.lastPoll = "success") => result = "success"

\* "processando" was polled, a later poll saw success text: success
C7_Witness ==
    /\ obs.pendingSeen
    /\ obs.lastPoll = "success"
    /\ result = "success"
    /\ outcome = "ok"

\* C8: once an evidence wait has observed feedback text, then (as long as the
\* page stays open) no further submit click is made and the run goes on to
\* the final result wait; it can only end before it because the page never
\* stabilized.
C8_FeedbackMeansSubmitted ==
    (obs.fbClicks # -1 /\ ~pageClosed) =>
        /\ Len(clicks) = obs.fbClicks
        /\ pc = "done" => obs.resultWait \/ outcome = CheckoutErr.NoVisibleElement

\* C9: the submit control is clicked at most Attempts times, a retry click is
\* made only when no feedback had been observed before it, and a run whose
\* last attempt left the modal open ends in an AutomationError without
\* entering the final result wait.
C9_RetryOnlyWhileOpenNoFeedback ==
    /\ Len(clicks) <= Attempts
    /\ \A i \in 2..Len(clicks) : obs.fbClicks = -1 \/ obs.fbClicks >= i
    /\ (pc = "done" /\ obs.evAttempt = Attempts /\ submitState = "modal_open") =>
           outcome \in AutomationErrors /\ ~obs.resultWait

\* C10: the final result is one of success, failure, unknown; "unknown" only
\* if no poll had success or failure text to see, "failure" only if a poll had
\* failure text to see; the run reports unknown and failure with different
\* errors and different snapshot labels.
C10_ResultTrichotomy ==
    /\ result \in { "none", "success", "failure", "unknown" }
    /\ pc \in { "report", "done" } /\ obs.resultWait =>
           result \in { "success", "failure", "unknown" }
    /\ result = "unknown" => ~obs.sawSuccess /\ ~obs.sawFailure
    /\ result = "failure" => obs.sawFailure
    /\ (pc = "done" /\ result = "unknown") =>
           /\ outcome = CheckoutErr.ResultUnknown
           /\ snaps[Len(snaps)] = "payment_result_unknown"
    /\ (pc = "done" /\ result = "failure") =>
           /\ outcome = CheckoutErr.PaymentFailure[config.failure_text # ""]
           /\ outcome # CheckoutErr.ResultUnknown
           /\ snaps[Len(snaps)] = "payment_failure"

\* the polls ran out on an open page that showed neither text
C10_Witness ==
    /\ pc = "done"
    /\ result = "unknown"
    /\ ~pageClosed
    /\ resPoll = ResultPolls
    /\ outcome = CheckoutErr.ResultUnknown

\* C11: the total validation passes exactly when the configured and the
\* displayed amount are equal after normalization, with TOTAL_SELECTOR and
\* with the page-wide text search alike.
C11_TotalPassesIffNormalizedEqual ==
    (money.verdict.kind # "none" /\ money.shown) =>
        ( (money.verdict.kind = "ok") <=>
          (normalize_money(money.expected_total)
             = normalize_money(money.displayed)) )

\* C12: every total mismatch is an AutomationError that carries the expected
\* and the actually displayed value, in both modes.
C12_MismatchCarriesBothValues ==
    ( /\ money.verdict.kind # "none"
      /\ money.shown
      /\ money.verdict.kind # "ok" ) =>
        /\ money.verdict.kind = "AutomationError"
        /\ money.verdict.expected = money.expected_total
        /\ money.verdict.hasActual
        /\ money.verdict.actual = str_rstrip(str_lstrip(money.displayed))

\* C13: normalize_money is idempotent, its output holds only digits and
\* commas, and 'R$ 1.234,56' and '1234,56' both normalize to '1234,56'.
C13_NormalizeMoneyIdempotent ==
    /\ Len(money.norm) >= 1 =>
         /\ \A i \in 1..Len(money.norm[1]) :
                (isdigit(money.norm[1][i]) \/ money.norm[1][i] = ",")
         /\ money.displayed \in { Amount.rs_1_234_56, Amount.a_1234_56 }
                => money.norm[1] = Amount.a_1234_56
    /\ Len(money.norm) = 2 => money.norm[2] = money.norm[1]

C13_Witness ==
    /\ Len(money.norm) = 2
    /\ money.displayed = Amount.rs_1_234_56
    /\ money.norm[2] = Amount.a_1234_56

\* C14: the favorites lookup is a case- and diacritic-insensitive substring
\* match on normalized text: the name 'Mega-Sena' finds a row rendered as
\* 'MEGA SENA' and a row rendered as 'mega-sena' with a grave accent.
C14_MegaSenaMatches ==
    ( /\ fav.searched
      /\ fav.name = FavoriteName.Mega_Sena
      /\ \E i \in 1..Len(fav.rows) :
            /\ fav.rows[i].readable
            /\ fav.rows[i].text \in { RowText.MEGA_SENA, RowText.mega_sena_grave } ) =>
        /\ fav.row # NoRow
        /\ fav.rows[fav.row].readable

\* C15: when the session is already authenticated and the login form never
\* appears, run_login returns the page it was given, having clicked nothing
\* but interstitials, filled nothing and prompted for no code.
C15_AuthenticatedSessionIsNoOp ==
    (login.pc # "idle" /\ ~login.everUnauth) =>
        /\ login.clicks \subseteq { "cookie", "age_gate", "enter_site" }
        /\ login.fills = {}
        /\ login.prompts = 0
        /\ login.pc = "done" =>
              /\ login.outcome = "returned"
              /\ login.page = 1

C15_Witness ==
    /\ login.pc = "done"
    /\ ~login.everUnauth
    /\ login.outcome = "returned"
    /\ login.clicks = { "cookie", "age_gate", "enter_site" }
    /\ "login_skipped_session_active" \in login.snaps

\* C16 as stated: when the fill of the username reveals the password input
\* at once, run_login never clicks 'next' and never prompts for, fills or
\* submits a login code for the rest of the login.
C16_PasswordFirstSkipsOtp ==
    login.passwordFirst =>
        /\ "next" \notin login.clicks
        /\ login.prompts = 0
        /\ "otp" \notin login.fills
        /\ login.clicks \cap { "otp_submit", "otp_enter" } = {}

\* C16 as amended: when the fill of the username reveals the password input
\* at once, run_login never clicks 'next' and never enters the code branch
\* that follows it; it prompts for a login code at most once, and only after
\* it filled the password and clicked the submit control.
C16_PasswordFirstSkipsNextBranch ==
    login.passwordFirst =>
        /\ login.clicks \cap { "next", "receive" } = {}
        /\ "login_after_next" \notin login.snaps
        /\ login.pc \notin { "wait_step", "wait_after_otp", "post_otp",
                             "post_otp_fill", "post_otp_click" }
        /\ ~login.earlyPrompt
        /\ login.prompts <= 1
        /\ ( \/ login.prompts = 1
             \/ "otp" \in login.fills
             \/ login.clicks \cap { "otp_submit", "otp_enter" } # {} ) =>
                 /\ "password" \in login.fills
                 /\ "submit" \in login.clicks

C16_Witness ==
    /\ login.passwordFirst
    /\ login.pc = "done"
    /\ login.prompts = 1
    /\ "otp_submit" \in login.clicks
    /\ login.outcome = "returned"

\* C17: run_login returns a page only when the URL of that page is outside
\* the login domain 'login.caixa.gov.br'.
C17_ReturnsOutsideLoginDomain ==
    login.outcome = "returned" => login.returned_url # LoginDomain

\* the candidates of a list that a cascade may return: not blank, and with
\* a visible first match
Eligible(r) ==
    { i \in 1..Len(r.selectors) :
        ~IsBlank(r.selectors[i]) /\ r.selectors[i] \in r.visible }

\* C18: on an open page every selector cascade returns the first candidate
\* of the list that is not blank and is visible; when there is none,
\* find_visible_locator_by_selectors and _find_visible_in_scope return None
\* and visible_locator_by_selectors raises AutomationError.
C18_CascadeReturnsFirstVisible ==
    ~resolver.closed =>
        \A f \in { "visible_locator_by_selectors",
                   "find_visible_locator_by_selectors",
                   "_find_visible_in_scope" } :
            resolver.results[f] # "not called" =>
                IF Eligible(resolver) # {}
                THEN \E i \in Eligible(resolver) :
                        /\ \A j \in Eligible(resolver) : i <= j
                        /\ resolver.results[f] = resolver.selectors[i]
                ELSE resolver.results[f] =
                        IF f = "visible_locator_by_selectors"
                        THEN "AutomationError" ELSE "None"

C18_Witness ==
    /\ ~resolver.closed
    /\ resolver.selectors = << " ", "#b", "#a" >>
    /\ resolver.visible = { "#a", "#b" }
    /\ resolver.results["visible_locator_by_selectors"] = "#b"
    /\ resolver.results["find_visible_locator_by_selectors"] = "#b"
    /\ resolver.results["_find_visible_in_scope"] = "#b"

\* C19: on a closed page _try_click and text_exists do not return False,
\* and _find_visible_in_scope and find_visible_locator_by_selectors, given a
\* selector to wait for, do not return None.
C19_ClosedPageIsHardFault ==
    resolver.closed =>
        /\ resolver.results["_try_click"] # "False"
        /\ resolver.results["text_exists"] # "False"
        /\ first_non_empty(resolver.selectors) # << >> =>
              /\ resolver.results["_find_visible_in_scope"] # "None"
              /\ resolver.results["find_visible_locator_by_selectors"] # "None"

\* C20: a wait that used up its polls probes once more after the last
\* sleep: a condition that holds when the last sleep ends is reported as
\* reached, not as timed out.
C20_RecheckAfterFinalSleep ==
    ( /\ waits.phase = "done"
      /\ waits.poll = WaitPolls(waits.kind)
      /\ wait_probe(waits.kind, waits.atReturn) # "continue" ) =>
        waits.result = wait_probe(waits.kind, waits.atReturn)

\* C21: a page closed while a wait polls ends the wait in a hard failure: the
\* evidence wait does not return "closed_no_feedback" for a page that was
\* closed when it returned, and the final result wait does not return
\* "unknown" from a poll that found the page closed
C21_ClosedMidPollIsHardFailure ==
    /\ ~( obs.evClosed /\ submitState = "closed_no_feedback" )
    /\ ~( obs.lastPoll = "closed" /\ result = "unknown" )

(***************************************************************************)
(* Specification of main (src/src/main.py) with start_browser and          *)
(* close_browser (src/src/browser.py) and save_snapshot                    *)
(* (src/src/utils/snapshots.py).  The three flow steps are taken by their   *)
(* outcome: they return, raise AutomationError or raise anything else.     *)
(* run.playwright, run.context and run.page are the locals of main (FALSE  *)
(* and NoPage for None); run.driver and run.ctx are the Playwright driver   *)
(* and the browser context themselves.  Page 1 is the page start_browser    *)
(* returns, page 2 another page of the context that run_login may return.  *)
(* run.steps lists the steps started, each with the page it was given, its  *)
(* outcome and the page it returned.                                       *)
(***************************************************************************)
StepOutcomes == { "returned", "AutomationError", "Unexpected" }

\* the status main returns for each outcome of the run
ExitStatus == [ returned |-> 0, AutomationError |-> 1, Unexpected |-> 1 ]

\* the try block: the step that follows a step, or the handlers
next_step_IgnoresFailure(step, out) ==
    IF step = "login" THEN "favorites"
    ELSE IF step = "favorites" THEN "checkout"
    ELSE IF out = "returned" THEN "finally" ELSE "except"

next_step(step, out) ==
    IF out # "returned" THEN "except"
    ELSE IF step = "login" THEN "favorites"
    ELSE IF step = "favorites" THEN "checkout"
    ELSE "finally"

\* save_snapshot: "None", the path, or "raise" when an exception leaves it;
\* shotOut is what page.screenshot does on an open page
save_snapshot_returns_RaisesOnClosed(closed, shotOut) ==
    IF closed \/ shotOut # "ok" THEN "raise" ELSE "path"

save_snapshot_returns(closed, shotOut) ==
    IF closed THEN "None"
    ELSE IF shotOut \in { "PlaywrightError", "PlaywrightTimeoutError" }
    THEN "None"
    ELSE "path"

MainInit ==
    /\ PaymentIdle
    /\ money = Idle.money
    /\ fav = Idle.fav
    /\ browser = Idle.browser
    /\ login = Idle.login
    /\ resolver = Idle.resolver
    /\ waits = Idle.waits
    /\ checkout = Idle.checkout
    /\ run = [ Idle.run EXCEPT !.pc = "start" ]

\* playwright, context, page = start_browser(config): the driver start, the
\* launch of the context or a later line of start_browser may raise, and then
\* the locals of main keep None
StartBrowser ==
    /\ run.pc = "start"
    /\ \E out \in { "start_fails", "launch_fails", "page_fails", "ok" } :
         run' = [ run EXCEPT
                    !.driver = IF out = "start_fails" THEN "off" ELSE "on",
                    !.ctx = IF out \in { "page_fails", "ok" }
                            THEN "open" ELSE "none",
                    !.playwright = ( out = "ok" ),
                    !.context = ( out = "ok" ),
                    !.page = IF out = "ok" THEN 1 ELSE NoPage,
                    !.caught = IF out = "ok" THEN "none" ELSE "Unexpected",
                    !.pc = IF out = "ok" THEN "login" ELSE "except" ]
    /\ UNCHANGED << paymentVars, money, fav, browser, login, resolver, waits,
                    checkout >>

\* page = run_login(page, config, logger, run_dir)
RunLogin ==
    /\ run.pc = "login"
    /\ \E out \in StepOutcomes, p \in { 1, 2 }, closes \in BOOLEAN :
         run' = [ run EXCEPT
                    !.steps = Append(@, [ step |-> "login", page |-> run.page,
                                          out |-> out,
                                          returned |-> IF out = "returned"
                                                       THEN p ELSE NoPage ]),
                    !.closed = IF closes THEN @ \cup { run.page } ELSE @,
                    !.page = IF out = "returned" THEN p ELSE @,
                    !.unexpected = IF out = "Unexpected"
                                   THEN @ \cup { "login" } ELSE @,
                    !.caught = IF out = "returned" THEN @ ELSE out,
                    !.pc = next_step("login", out) ]
    /\ UNCHANGED << paymentVars, money, fav, browser, login, resolver, waits,
                    checkout >>

\* run_favorites_flow(page, ...): its body, then the probe of the cart badge,
\* whose exceptions of any kind are caught (except Exception) and logged
RunFavorites ==
    /\ run.pc = "favorites"
    /\ \E out \in StepOutcomes, closes \in BOOLEAN,
          badge \in { "visible", "AutomationError", "Unexpected" } :
         run' = [ run EXCEPT
                    !.steps = Append(@, [ step |-> "favorites",
                                          page |-> run.page, out |-> out,
                                          returned |-> NoPage ]),
                    !.closed = IF closes THEN @ \cup { run.page } ELSE @,
                    !.unexpected =
                        IF out = "Unexpected" \/
                           ( out = "returned" /\ badge = "Unexpected" )
                        THEN @ \cup { "favorites" } ELSE @,
                    !.caught = IF out = "returned" THEN @ ELSE out,
                    !.pc = next_step("favorites", out) ]
    /\ UNCHANGED << paymentVars, money, fav, browser, login, resolver, waits,
                    checkout >>

\* run_checkout_and_payment(page, ...), then print("SUCCESS") and return 0
RunCheckout ==
    /\ run.pc = "checkout"
    /\ \E out \in StepOutcomes, closes \in BOOLEAN :
         run' = [ run EXCEPT
                    !.steps = Append(@, [ step |-> "checkout",
                                          page |-> run.page, out |-> out,
                                          returned |-> NoPage ]),
                    !.closed = IF closes THEN @ \cup { run.page } ELSE @,
                    !.unexpected = IF out = "Unexpected"
                                   THEN @ \cup { "checkout" } ELSE @,
                    !.caught = IF out = "returned" THEN @ ELSE out,
                    !.printed = IF out = "returned" THEN "SUCCESS" ELSE @,
                    !.status = IF out = "returned"
                               THEN { ExitStatus.returned } ELSE @,
                    !.pc = next_step("checkout", out) ]
    /\ UNCHANGED << paymentVars, money, fav, browser, login, resolver, waits,
                    checkout >>

\* except AutomationError / except Exception: the snapshot when page is not
\* None, print("FAILED"), return 1
HandleFailure ==
    /\ run.pc = "except"
    /\ \E shotOut \in { "ok", "PlaywrightError", "PlaywrightTimeoutError" } :
         LET shot == IF run.page = NoPage THEN "not called"
                     ELSE save_snapshot_returns(run.page \in run.closed,
                                                shotOut)
         IN  run' = [ run EXCEPT
                        !.shot = shot,
                        !.shotOut = IF run.page = NoPage THEN @ ELSE shotOut,
                        !.escaped = ( shot = "raise" ),
                        !.printed = IF shot = "raise" THEN @ ELSE "FAILED",
                        !.status = IF shot = "raise" THEN @
                                   ELSE { ExitStatus[run.caught] },
                        !.pc = "finally" ]
    /\ UNCHANGED << paymentVars, money, fav, browser, login, resolver, waits,
                    checkout >>

\* finally: close_browser(playwright, context) when both locals are set;
\* context.close() may raise, and then playwright.stop() is not reached and
\* the exception leaves main in place of the status
Finally ==
    /\ run.pc = "finally"
    /\ IF run.playwright /\ run.context
       THEN \E closeOut \in { "ok", "PlaywrightError" } :
              run' = [ run EXCEPT
                         !.ctx = IF closeOut = "ok" THEN "closed" ELSE @,
                         !.driver = IF closeOut = "ok" THEN "stopped" ELSE @,
                         !.escaped = @ \/ closeOut # "ok",
                         !.status = IF closeOut = "ok" THEN @ ELSE {},
                         !.pc = "done" ]
       ELSE run' = [ run EXCEPT !.pc = "done" ]
    /\ UNCHANGED << paymentVars, money, fav, browser, login, resolver, waits,
                    checkout >>

MainNext ==
    \/ StartBrowser
    \/ RunLogin
    \/ RunFavorites
    \/ RunCheckout
    \/ HandleFailure
    \/ Finally

SpecMain == MainInit /\ [][MainNext]_vars

(***************************************************************************)
(* Specification of run_checkout_and_payment up to the code prompt          *)
(* (src/src/steps/checkout.py 963-998): the cart is opened, the checkout is *)
(* clicked, the total is validated, the card is chosen, the payment is      *)
(* submitted and the operator is asked for the code.                        *)
(* checkout.view is what the page shows: "favorites" (the favorites table,  *)
(* URL unchanged), "cart" (the cart markers, URL changed), "elsewhere" (URL *)
(* changed, none of the texts the cart tests look for), "modal" (the        *)
(* confirmation modal over the                                              *)
(* cart), "payment" (the payment page).  checkout.events lists the clicks,  *)
(* the runs of the confirmation-modal handler, the page detections and the  *)
(* prompt, in order.  A setting of the configuration is "" or "set".        *)
(***************************************************************************)
\* _is_cart_page: one of the cart markers is visible
is_cart_page_TrustsUrl(view) == view \in { "cart", "elsewhere" }

is_cart_page(view) == view = "cart"

\* the click candidates of _open_cart in the order tried, then the routes
CartCascade == << "configured", "header", "header_retry", "selectors",
                  "role", "text", "routes" >>

\* _open_cart from candidate i on: a candidate that is clickable is clicked,
\* the page lands on its view, and the test of that candidate decides;
\* _cart_context_changed is true when the URL changed
RECURSIVE open_cart_from(_, _, _, _, _)
open_cart_from(conf, clickable, lands, i, view) ==
    IF i > Len(CartCascade) THEN [ opened |-> FALSE, view |-> view ]
    ELSE LET k == CartCascade[i]
             tried == /\ k \in clickable
                      /\ k = "configured" => conf.cart_entry_selector # ""
                      /\ k = "text" => conf.cart_entry_text # ""
             cart_context_changed == lands # "favorites"
             accepted ==
                 IF k = "configured" THEN cart_context_changed
                 ELSE IF k \in { "header", "selectors" }
                 THEN is_cart_page(lands) \/ cart_context_changed
                 ELSE is_cart_page(lands)
         IN  IF tried /\ accepted THEN [ opened |-> TRUE, view |-> lands ]
             ELSE open_cart_from(conf, clickable, lands, i + 1,
                                 IF tried THEN lands ELSE view)

\* where the first clickable match of the confirm candidates lies: none is
\* clickable, it is a control of the modal, or it is a control of the page
\* outside the modal
ConfirmTargets == { "none", "modal", "background" }

\* lines 791-803: the confirm candidates are locators of the whole page; the
\* control clicked while the modal is visible
confirm_click(view, confirm) ==
    IF view = "modal" /\ confirm # "none" THEN { confirm } ELSE {}

\* _handle_checkout_confirmation_modal on a view: the modal is confirmed
\* away when its confirm control is clicked
handle_modal(view, confirm) ==
    IF view = "modal" /\ confirm = "modal" THEN "payment" ELSE view

\* the click candidates of _click_checkout in the order tried
CheckoutCascade == << "configured", "explicit", "role", "text" >>

\* _click_checkout from candidate i on; _is_checkout_or_payment_page holds
\* on the payment page and on a visible confirmation modal
RECURSIVE click_checkout_from(_, _, _, _, _, _, _)
click_checkout_from(conf, clickable, lands, confirm, i, view, events) ==
    IF i > Len(CheckoutCascade)
    THEN [ opened |-> FALSE, view |-> view, events |-> events,
           confirms |-> {} ]
    ELSE LET k == CheckoutCascade[i]
             tried == /\ k \in clickable
                      /\ k = "configured" =>
                            conf.checkout_button_selector # ""
             after == IF k = "configured" THEN lands
                      ELSE handle_modal(lands, confirm)
             clicked == IF k = "configured" THEN {}
                        ELSE confirm_click(lands, confirm)
             seen == events \o << "click_checkout" >> \o
                     ( IF k = "configured" THEN << >>
                       ELSE << "modal_handler" >> ) \o << "detect" >>
         IN  IF ~tried
             THEN click_checkout_from(conf, clickable, lands, confirm,
                                      i + 1, view, events)
             ELSE IF after \in { "payment", "modal" }
             THEN [ opened |-> TRUE, view |-> after, events |-> seen,
                    confirms |-> clicked ]
             ELSE LET rest == click_checkout_from(conf, clickable, lands,
                                                  confirm, i + 1, after, seen)
                  IN  [ rest EXCEPT !.confirms = @ \cup clicked ]

\* _select_or_fill_card: the card chosen, or the exception raised; present
\* is what the page offers ("selector": SAVED_CARD_SELECTOR matches,
\* "text_click": the SAVED_CARD_TEXT element takes the click, "text_visible":
\* it becomes visible within click_by_text's wait, "last4", "any": a saved
\* card of that kind is clickable, "form": the manual card form is visible)
select_or_fill_card(conf, present) ==
    LET manual == IF "form" \in present THEN "manual"
                  ELSE CheckoutErr.NoForm
    IN  IF ~conf.use_saved_card THEN manual
        ELSE IF conf.saved_card_selector # ""
        THEN IF "selector" \in present THEN "saved_selector"
             ELSE "PlaywrightTimeoutError"
        ELSE IF conf.saved_card_text # ""
        THEN IF "text_click" \in present THEN "saved_text"
             ELSE IF "text_visible" \in present THEN "saved_text_fallback"
             ELSE "PlaywrightTimeoutError"
        ELSE IF conf.saved_card_last4 # "" /\ "last4" \in present
        THEN "saved_last4"
        ELSE IF "any" \in present THEN "saved_any"
        ELSE manual

Settings == { "", "set" }

CheckoutInit ==
    /\ PaymentIdle
    /\ money = Idle.money
    /\ fav = Idle.fav
    /\ browser = Idle.browser
    /\ login = Idle.login
    /\ resolver = Idle.resolver
    /\ waits = Idle.waits
    /\ run = Idle.run
    /\ \E conf \in [ cart_entry_selector : Settings,
                      cart_entry_text : Settings,
                      checkout_button_selector : Settings,
                      use_saved_card : BOOLEAN,
                      saved_card_selector : Settings,
                      saved_card_text : Settings,
                      saved_card_last4 : Settings ] :
         checkout = [ Idle.checkout EXCEPT !.pc = "open_cart", !.conf = conf ]

\* lines 965-969: _open_cart, the cart-page check, the snapshot
OpenCart ==
    /\ checkout.pc = "open_cart"
    /\ \E clickable \in SUBSET { CartCascade[i] : i \in DOMAIN CartCascade },
          lands \in { "favorites", "cart", "elsewhere" } :
         LET r == open_cart_from(checkout.conf, clickable, lands, 1,
                                 checkout.view)
         IN  checkout' =
               IF ~r.opened
               THEN [ checkout EXCEPT !.view = r.view, !.pc = "done",
                                      !.outcome = CheckoutErr.NoCart ]
               ELSE IF ~is_cart_page(r.view)
               THEN [ checkout EXCEPT !.view = r.view, !.pc = "done",
                        !.outcome = CheckoutErr.CartNotDetected ]
               ELSE [ checkout EXCEPT !.view = r.view, !.cartView = r.view,
                        !.snaps = Append(@, "cart_opened"),
                        !.pc = "click_checkout" ]
    /\ UNCHANGED << paymentVars, money, fav, browser, login, resolver, waits,
                    run >>

\* lines 972-974: _click_checkout, the snapshot
ClickCheckout ==
    /\ checkout.pc = "click_checkout"
    /\ \E clickable \in SUBSET { CheckoutCascade[i] :
                                    i \in DOMAIN CheckoutCascade },
          lands \in { "cart", "modal", "payment" }, confirm \in ConfirmTargets :
         LET r == click_checkout_from(checkout.conf, clickable, lands,
                                      confirm, 1, checkout.view,
                                      checkout.events)
         IN  checkout' =
               IF ~r.opened
               THEN [ checkout EXCEPT !.view = r.view, !.events = r.events,
                        !.confirms = @ \cup r.confirms,
                        !.pc = "done", !.outcome = CheckoutErr.NoCheckout ]
               ELSE [ checkout EXCEPT !.view = r.view, !.events = r.events,
                        !.confirms = @ \cup r.confirms,
                        !.snaps = Append(@, "checkout_opened"),
                        !.pc = "validate" ]
    /\ UNCHANGED << paymentVars, money, fav, browser, login, resolver, waits,
                    run >>

ValidateTotalStep_IgnoresMismatch ==
    /\ checkout.pc = "validate"
    /\ \E confirm \in ConfirmTargets, total \in { "shown", "other" } :
         checkout' =
           IF total = "shown"
           THEN [ checkout EXCEPT
                    !.view = handle_modal(@, confirm),
                    !.confirms = @ \cup confirm_click(checkout.view, confirm),
                    !.events = @ \o << "modal_handler", "validate_total",
                                       "modal_handler" >>,
                    !.pc = "card" ]
           ELSE [ checkout EXCEPT
                    !.view = handle_modal(@, confirm),
                    !.confirms = @ \cup confirm_click(checkout.view, confirm),
                    !.events = @ \o << "modal_handler", "validate_total",
                                       "total_mismatch", "modal_handler" >>,
                    !.pc = "card" ]
    /\ UNCHANGED << paymentVars, money, fav, browser, login, resolver, waits,
                    run >>

\* lines 976-981: the modal handler, _validate_total, which raises on a
\* total that is not the expected one, the modal handler
ValidateTotalStep ==
    /\ checkout.pc = "validate"
    /\ \E confirm \in ConfirmTargets, total \in { "shown", "other" } :
         checkout' =
           IF total = "shown"
           THEN [ checkout EXCEPT
                    !.view = handle_modal(@, confirm),
                    !.confirms = @ \cup confirm_click(checkout.view, confirm),
                    !.events = @ \o << "modal_handler", "validate_total",
                                       "modal_handler" >>,
                    !.pc = "card" ]
           ELSE [ checkout EXCEPT
                    !.view = handle_modal(@, confirm),
                    !.confirms = @ \cup confirm_click(checkout.view, confirm),
                    !.events = @ \o << "modal_handler", "validate_total",
                                       "total_mismatch" >>,
                    !.pc = "done", !.outcome = CheckoutErr.Total ]
    /\ UNCHANGED << paymentVars, money, fav, browser, login, resolver, waits,
                    run >>

\* lines 984-985: _select_or_fill_card, the snapshot
SelectOrFillCard ==
    /\ checkout.pc = "card"
    /\ \E present \in SUBSET { "selector", "text_click", "text_visible",
                                 "last4", "any", "form" } :
         LET card == select_or_fill_card(checkout.conf, present)
         IN  checkout' =
               IF card \in { "PlaywrightTimeoutError", CheckoutErr.NoForm }
               THEN [ checkout EXCEPT !.card = card, !.pc = "done",
                                      !.outcome = card ]
               ELSE [ checkout EXCEPT !.card = card,
                        !.snaps = Append(@, "payment_form_ready"),
                        !.pc = "submit" ]
    /\ UNCHANGED << paymentVars, money, fav, browser, login, resolver, waits,
                    run >>

SubmitPayment_PromptsWithoutClick ==
    /\ checkout.pc = "submit"
    /\ \E clicked \in BOOLEAN :
         checkout' =
           IF clicked
           THEN [ checkout EXCEPT !.events = Append(@, "click_submit"),
                    !.snaps = Append(@, "payment_submitted"),
                    !.pc = "prompt" ]
           ELSE [ checkout EXCEPT !.pc = "prompt" ]
    /\ UNCHANGED << paymentVars, money, fav, browser, login, resolver, waits,
                    run >>

\* lines 988-991: the wait for the submit control, whose result is not
\* used, the click, the snapshot
SubmitPayment ==
    /\ checkout.pc = "submit"
    /\ \E clicked \in BOOLEAN :
         checkout' =
           IF clicked
           THEN [ checkout EXCEPT !.events = Append(@, "click_submit"),
                    !.snaps = Append(@, "payment_submitted"),
                    !.pc = "prompt" ]
           ELSE [ checkout EXCEPT !.pc = "done",
                                  !.outcome = CheckoutErr.NoSubmit ]
    /\ UNCHANGED << paymentVars, money, fav, browser, login, resolver, waits,
                    run >>

\* lines 994-998: the prompt; an empty code raises, any other code is handed
\* to _fill_payment_otp_in_modal
PromptPayment ==
    /\ checkout.pc = "prompt"
    /\ \E typed \in { "", " ", "123456" } :
         checkout' = [ checkout EXCEPT
                         !.prompts = @ + 1,
                         !.events = Append(@, "prompt"),
                         !.pc = "done",
                         !.outcome = IF Strip(typed) = ""
                                     THEN CheckoutErr.OtpEmpty
                                     ELSE "fill_otp" ]
    /\ UNCHANGED << paymentVars, money, fav, browser, login, resolver, waits,
                    run >>

CheckoutNext ==
    \/ OpenCart
    \/ ClickCheckout
    \/ ValidateTotalStep
    \/ SelectOrFillCard
    \/ SubmitPayment
    \/ PromptPayment

SpecCheckout == CheckoutInit /\ [][CheckoutNext]_vars

(***************************************************************************)
(* Specification of the prompts of a run: run_login, then (main.py 38-40)   *)
(* run_checkout_and_payment on the page it returned, with the default       *)
(* configuration of the cart, the checkout and the card.  The later steps   *)
(* read nothing of what run_login did: when it has returned, its record     *)
(* keeps the number of prompts only, and the pages of the login model give  *)
(* way to the view of the checkout model.                                   *)
(***************************************************************************)
\* main.py 38-40: run_login returned, the later steps start
RunCheckoutAfterLogin ==
    /\ login.pc = "done" /\ login.outcome = "returned"
    /\ checkout.pc = "idle"
    /\ checkout' = [ checkout EXCEPT !.pc = "open_cart" ]
    /\ login' = [ Idle.login EXCEPT !.pc = "done", !.outcome = "returned",
                                    !.prompts = login.prompts ]
    /\ browser' = Idle.browser
    /\ UNCHANGED << paymentVars, money, fav, resolver, waits, run >>

PromptsNext == LoginNext \/ RunCheckoutAfterLogin \/ CheckoutNext

SpecPrompts == LoginInit /\ [][PromptsNext]_vars

\* the outcome of the run as main sees it
RunKind == IF run.caught = "none" THEN "returned" ELSE run.caught

FlowOrder == << "login", "favorites", "checkout" >>

\* C22: once the driver was started, main does not end before the context
\* is closed and the driver is stopped, whatever the exit path
C22_TornDownOnEveryExit ==
    ( run.pc = "done" /\ run.driver # "off" ) =>
        ( run.driver = "stopped" /\ run.ctx # "open" )

\* C23: the status main returns for one outcome of the run is the status of
\* no other outcome: success, AutomationError and any other exception have
\* pairwise distinct statuses
C23_DistinctExitStatuses ==
    ( run.pc \in { "finally", "done" } /\ run.status # {} ) =>
        \A k \in StepOutcomes \ { RunKind } : ExitStatus[k] \notin run.status

\* C24: an exception other than AutomationError raised inside a flow step
\* reaches the handler of main: no later step starts, the snapshot is
\* attempted and the run prints FAILED
C24_UnexpectedNeverSwallowed ==
    \A s \in run.unexpected :
        /\ run.pc \in { "except", "finally", "done" }
        /\ run.caught = "Unexpected"
        /\ run.steps[Len(run.steps)].step = s
        /\ run.pc # "except" =>
              ( run.shot # "not called" /\ run.printed = "FAILED" )

\* C25: in the handlers of main save_snapshot raises nothing and returns
\* None for a closed page and for a screenshot that fails with a browser
\* error, so the handler prints FAILED and returns its status
C25_SnapshotSafeOnClosedPage ==
    ( run.pc \in { "finally", "done" } /\ run.shot # "not called" ) =>
        /\ run.shot \in { "None", "path" }
        /\ ( run.page \in run.closed \/ run.shotOut # "ok" ) =>
              run.shot = "None"
        /\ run.printed = "FAILED"
        /\ ~run.escaped => run.status = { ExitStatus[run.caught] }

C25_Witness ==
    /\ run.pc = "done"
    /\ run.page \in run.closed
    /\ run.shot = "None"
    /\ run.printed = "FAILED"
    /\ run.status = { ExitStatus.Unexpected }

\* C26: the steps start in the order login, favorites, checkout, each at
\* most once and only after the step before it returned; favorites and
\* checkout are given the page run_login returned
C26_StepsInOrderOnLoginPage ==
    /\ Len(run.steps) <= Len(FlowOrder)
    /\ \A i \in 1..Len(run.steps) :
         /\ run.steps[i].step = FlowOrder[i]
         /\ i > 1 => /\ run.steps[i - 1].out = "returned"
                     /\ run.steps[i].page = run.steps[1].returned

C26_Witness ==
    /\ run.pc = "done"
    /\ Len(run.steps) = Len(FlowOrder)
    /\ run.steps[1].page # run.steps[1].returned
    /\ run.steps[3].out = "AutomationError"

\* C27: the operator is prompted at most once during login and at most once
\* during payment, and the payment prompt comes after the click on the
\* payment submit control
C27_PromptsAtMostTwice ==
    /\ login.prompts <= 1
    /\ checkout.prompts <= 1
    /\ \A j \in 1..Len(checkout.events) :
         checkout.events[j] = "prompt" =>
             \E i \in 1..(j - 1) : checkout.events[i] = "click_submit"

C27_Witness ==
    /\ login.prompts = 1
    /\ checkout.prompts = 1
    /\ checkout.outcome = "fill_otp"

\* C28: with USE_SAVED_CARD, a saved-card option that fails does not raise:
\* the later options are tried and at last the manual card form is filled
C28_SavedCardFallsThroughToForm ==
    ( checkout.conf.use_saved_card /\ checkout.card # "none" ) =>
        checkout.card # "PlaywrightTimeoutError"

\* C29: in _click_checkout every page detection that follows a click comes
\* after a run of the confirmation-modal handler for that click
C29_ModalHandlerBeforeDetection ==
    \A j \in 1..Len(checkout.events) :
        checkout.events[j] = "detect" =>
            ( j > 1 /\ checkout.events[j - 1] = "modal_handler" )

\* C30: the checkout click is reached only when the cart markers were seen
\* after the cart was opened; a click or a changed URL without them ends in
\* the AutomationError of the cart check
C30_CartMarkersBeforeCheckout ==
    /\ ( checkout.snaps # << >> \/ checkout.events # << >> ) =>
          checkout.cartView = "cart"
    /\ ( checkout.pc = "done" /\ checkout.view = "elsewhere" ) =>
          checkout.outcome \in { CheckoutErr.NoCart,
                                 CheckoutErr.CartNotDetected }

C30_Witness ==
    /\ checkout.pc = "done"
    /\ checkout.view = "elsewhere"
    /\ checkout.outcome = CheckoutErr.CartNotDetected

\* C38: the error "OTP modal closed without payment processing confirmation
\* markers" is raised only after a submit click whose evidence wait returned
\* "closed_no_feedback": not without a click, and not when the last wait
\* returned "modal_open" or "feedback"
C38_ClosedErrorOnlyAfterClosedEvidence ==
    outcome = CheckoutErr.ClosedNoFeedback =>
        ( clicks # << >> /\ submitState = "closed_no_feedback" )

C35_ResolvedBeforeNextRead ==
    [][ ( ( CheckOtpAfterSubmit \/ FinalCheck ) /\ "submit" \in login.clicks ) =>
            login.page = resolve_active_page(browser.pages, login.page) ]_vars

\* C39: after the confirm click, _handle_checkout_confirmation_modal returns
\* True only when the modal and the "Confirma" text were seen gone within the
\* polls, and not when the modal is still open as the polls run out
C39_TrueOnlyWhenModalSeenGone ==
    ( waits.kind = "modal_gone" /\ waits.phase = "done" /\ waits.result = "True" ) =>
        waits.atReturn = "modal gone"

\* C31: while the confirmation modal is visible, the confirm control that
\* _handle_checkout_confirmation_modal clicks is a control of the modal, never
\* a control of the page outside it
C31_ConfirmClickInsideModal == checkout.confirms \subseteq { "modal" }

\* the snapshots of run_checkout_and_payment up to the prompt, in the order
\* of its phases
PhaseSnaps ==
    << "cart_opened", "checkout_opened", "payment_form_ready",
       "payment_submitted" >>

\* C37: the phases of the checkout come in their order only; the payment
\* submit control is clicked, and the payment code is asked for and handed
\* to the fill, only after a total validation that passed in the same run;
\* and a phase that fails ends the run before every later phase
C37_PhasesInOrder ==
    LET ev == checkout.events
        sn == checkout.snaps
        Has(e) == \E j \in 1..Len(ev) : ev[j] = e
        failed == checkout.outcome \notin { "running", "fill_otp" }
    IN  /\ Len(sn) <= Len(PhaseSnaps)
        /\ \A j \in 1..Len(sn) : sn[j] = PhaseSnaps[j]
        /\ \A j \in 1..Len(ev) :
              ev[j] \in { "click_submit", "prompt" } =>
                  /\ \E i \in 1..(j - 1) : ev[i] = "validate_total"
                  /\ ~Has("total_mismatch")
                  /\ Len(sn) >= 3
        /\ checkout.outcome = "fill_otp" =>
              ( Has("prompt") /\ Has("click_submit") /\ sn = PhaseSnaps )
        /\ failed => checkout.pc = "done"
        /\ checkout.outcome \in { CheckoutErr.NoCart,
                                   CheckoutErr.CartNotDetected } =>
              ( sn = << >> /\ ev = << >> )
        /\ checkout.outcome = CheckoutErr.NoCheckout =>
              ( Len(sn) = 1 /\ ~Has("validate_total") )
        /\ checkout.outcome = CheckoutErr.Total =>
              ( Len(sn) = 2 /\ checkout.card = "none" )
        /\ checkout.outcome \in { CheckoutErr.NoForm, "PlaywrightTimeoutError" } =>
              ( Len(sn) = 2 /\ ~Has("click_submit") )
        /\ checkout.outcome = CheckoutErr.NoSubmit =>
              ( Len(sn) = 3 /\ ~Has("click_submit") /\ ~Has("prompt") )
        /\ checkout.outcome = CheckoutErr.OtpEmpty => Len(sn) = 4

\* a run went through every phase up to the fill of the payment code
C37_Witness ==
    /\ checkout.outcome = "fill_otp"
    /\ checkout.snaps = PhaseSnaps
    /\ \E j \in 1..Len(checkout.events) : checkout.events[j] = "validate_total"

\* C32: when a positional candidate of _click_add_to_cart_in_row takes the
\* click, the control clicked is the second-to-last control of the row and
\* never the last one, whatever the number of controls
C32_PositionalClicksSecondToLast ==
    fav.via \in { "nth(1)", "first" } =>
        /\ fav.clicked = Len(fav.controls) - 1
        /\ fav.clicked # Len(fav.controls)

\* C33: with FAVORITES_ADD_BUTTON_SELECTOR configured and matching no
\* clickable element, the flow goes on with the row heuristics and the
\* positional candidates, and fails only when these fail too
C33_SelectorFailureFallsThrough ==
    LET r == click_add_to_cart_in_row(fav.controls) IN
    /\ fav.added = FavErr.Selector => r.clicked = NoControl
    /\ ( Strip(fav.selector) # "" /\ fav.added \notin { "none", "added" } ) =>
          r.clicked = NoControl

\* the results by which a wait says that it did not see what it waited for
NegativeResults == { "False", "unknown", "modal_open", "closed_no_feedback" }

\* C36: every wait is bounded: it ends, after max(1, timeout // interval)
\* polls at most, and a wait that used up its polls without seeing what it
\* waited for returns a negative result
C36_WaitsBoundedAndNegative ==
    /\ <>( waits.phase = "done" )
    /\ []( waits.poll <= WaitPolls(waits.kind) )
    /\ []( ( /\ waits.phase = "done"
             /\ waits.poll = WaitPolls(waits.kind)
             /\ wait_probe(waits.kind, waits.atReturn) = "continue" ) =>
               waits.result \in NegativeResults )

====
